---- MODULE Spec2Model ----
(***************************************************************************)
(* HydroImpact: the geospatial raster/vector analysis engine.              *)
(*                                                                         *)
(* Rasters are single-band grids with an affine north-up transform, an     *)
(* optional nodata sentinel and square pixels.  Geometries are modelled    *)
(* on the pixel lattice: a polygon is the set of pixels whose centre it    *)
(* contains, together with the pixel window of its bounding box.           *)
(***************************************************************************)
EXTENDS Integers, Sequences, FiniteSets, TLC

VARIABLES
    wse_src,        \* create_flood_extent_polygon: the water-surface raster
    dem_src,        \* create_flood_extent_polygon: the terrain raster (or absent)
    flood,          \* create_flood_extent_polygon: outcome of the call
    src,            \* the raster opened by the statistics, sampling and profile calls
    polygon,        \* extract_raster_stats_for_polygon: the polygon
    stats,          \* extract_raster_stats_for_polygon: outcome of the call
    points,         \* sample_raster_at_points: the coordinates
    sampled,        \* sample_raster_at_points: outcome of the call
    line_geometry,  \* extract_elevation_profile: the line
    profile,        \* extract_elevation_profile: outcome of the call
    pc,             \* download_building_footprints: position in the call
    quad_keys,      \* download_building_footprints: the tile keys, in iteration order
    i,              \* download_building_footprints: tiles handled so far
    idx,            \* download_building_footprints: the next building identifier
    combined_gdf,   \* download_building_footprints: the merged features
    warnings,       \* download_building_footprints: tiles reported with st.warning
    progress,       \* download_building_footprints: fractions given to progress_callback
    fetched,        \* download_building_footprints: what each handled tile resolved to
    target_crs,     \* the CRS string every input is normalised to
    layer,          \* the vector layer read by gpd.read_file
    loaded,         \* load_shapefile: outcome of the call
    raster_files,   \* reproject_all_files: the uploaded rasters, by name
    vector_files,   \* reproject_all_files: the uploaded layers, by name
    rpc,            \* reproject_all_files: position in the call
    pos,             \* reproject_all_files: names iterated so far, rasters first
    current_file,   \* reproject_all_files: files counted for the progress report
    reprojected_rasters,  \* reproject_all_files: name -> path of the normalised raster
    reprojected_vectors,  \* reproject_all_files: name -> path of the normalised layer
    temp_dir,       \* reproject_all_files: the files written, by path
    ops,            \* reproject_all_files: what was invoked on each file
    pass,           \* how many times the files have been given to reproject_all_files
    previous,       \* the files written by the call before this one
    checked,  \* check_all_inputs_crs: outcome of the call
    aoi_polygon,  \* download_building_footprints: the area of interest, as the number of zoom-9 tiles its bounds overlap
    first_call,  \* download_building_footprints: what an earlier call with the same inputs iterated and returned
    df,  \* format_results_table: the table of analyze_points
    formatted_df,  \* format_results_table: the table returned
    session_state,  \* st.session_state: the keys the reprojection sets, with their values
    disk,  \* the temporary directories of tempfile.mkdtemp that exist
    handed,  \* get_file_paths: the paths handed to the analysis of the last run
    buildings_gdf,  \* run_building_analysis: the buildings handed to the analysis
    raster_paths,   \* analyze_points: the rasters to sample, in dictionary order
    ppc,            \* analyze_points: position in the call
    coordinates,    \* analyze_points: what extract_point_coordinates returned
    results,        \* analyze_points: the columns of the table
    apc,            \* analyze_buildings: position in the call
    seen,            \* analyze_buildings: rows handled so far
    building_results,  \* analyze_buildings: the result rows
    shown           \* analyze_buildings: the fractions given to the progress bar

floodVars == <<wse_src, dem_src, flood>>

statsVars == <<polygon, stats>>

sampleVars == <<points, sampled>>

profileVars == <<line_geometry, profile>>

buildingVars == <<pc, quad_keys, i, idx, combined_gdf, warnings, progress, fetched>>

loadVars == <<layer, loaded>>

reprojVars == <<raster_files, vector_files, rpc, pos, current_file, reprojected_rasters,
                reprojected_vectors, temp_dir, ops, pass, previous>>

existingVars == <<buildings_gdf>>

pointVars == <<raster_paths, ppc, coordinates, results>>

analyzeVars == <<apc, seen, building_results, shown>>

checkVars == <<checked>>

repeatVars == <<aoi_polygon, first_call>>

formatVars == <<df, formatted_df>>

sessionVars == <<session_state, disk, handed>>

vectorVars == <<target_crs, loadVars, reprojVars, existingVars, pointVars, analyzeVars,
        checkVars,
        repeatVars,
        formatVars,
        sessionVars>>

\* what the actions of one operation never touch
outsideLoad == <<floodVars, src, statsVars, sampleVars, profileVars, buildingVars,
                 reprojVars, existingVars, pointVars, analyzeVars,
        checkVars,
        repeatVars,
        formatVars,
        sessionVars>>

outsideReproject == <<floodVars, src, statsVars, sampleVars, profileVars, buildingVars,
                      loadVars, existingVars, pointVars, analyzeVars,
        checkVars,
        repeatVars,
        formatVars>>

outsideExisting == <<src, statsVars, sampleVars, profileVars, buildingVars, reprojVars,
                     pointVars, analyzeVars,
        checkVars,
        repeatVars,
        formatVars,
        sessionVars>>

outsidePoints == <<floodVars, src, statsVars, sampleVars, profileVars, buildingVars,
                   target_crs, loaded, reprojVars, existingVars, analyzeVars,
        checkVars,
        repeatVars,
        formatVars,
        sessionVars>>

outsideRepeat == <<floodVars, src, statsVars, sampleVars, profileVars, target_crs,
                   loadVars, reprojVars, checkVars, existingVars, pointVars, analyzeVars,
        formatVars,
        sessionVars>>

outsideFormat == <<floodVars, src, statsVars, sampleVars, profileVars, buildingVars,
                   target_crs, loadVars, reprojVars, checkVars, repeatVars, existingVars,
                   pointVars, analyzeVars,
        sessionVars>>

outsideSession == <<floodVars, src, statsVars, sampleVars, profileVars, buildingVars,
                    target_crs, loadVars, checkVars, repeatVars, formatVars, existingVars,
                    pointVars, analyzeVars>>

outsideCheck == <<floodVars, src, statsVars, sampleVars, profileVars, buildingVars,
                  target_crs, loadVars, reprojVars, existingVars, pointVars, analyzeVars,
        repeatVars,
        formatVars,
        sessionVars>>

outsideAnalyze == <<floodVars, statsVars, sampleVars, profileVars, buildingVars,
                    target_crs, loadVars, reprojVars, pointVars,
        checkVars,
        repeatVars,
        formatVars,
        sessionVars>>

vars == <<wse_src, dem_src, flood, src, polygon, stats, points, sampled,
          line_geometry, profile, pc, quad_keys, i, idx, combined_gdf, warnings,
          progress, fetched, target_crs, layer, loaded, raster_files, vector_files,
          rpc, pos, current_file, reprojected_rasters, reprojected_vectors, temp_dir,
          ops, pass, previous, buildings_gdf, raster_paths, ppc, coordinates, results,
          apc, seen, building_results, shown,
          checked,
          aoi_polygon, first_call,
          df, formatted_df,
          session_state, disk, handed>>

----------------------------------------------------------------------------
(* Bounds of the model *)

GridH == 2          \* rows of the generated rasters
GridW == 2          \* columns of the generated rasters
PixelSize == 2      \* edge of a pixel, in coordinate units
MaxPoints == 2      \* coordinates in one sampling call
MaxTiles == 3       \* tiles overlapping the bounding box of an area of interest
MaxFeatures == 1    \* features served for one tile
MaxRepeat == 2      \* tiles of an area of interest that is downloaded twice
MaxLayer == 2       \* features in a vector layer
MaxPasses == 2      \* calls of reproject_all_files in a row
MaxBatch == 2       \* buildings handed to one analysis

----------------------------------------------------------------------------
(* Rasters *)

Cells(h, w) == (1..h) \X (1..w)

\* values a generated water-surface cell takes: a sentinel, dry, wet
WseVals == {-9999, 0, 5}

\* values a generated terrain cell takes: a sentinel, below and above the wet level
DemVals == {-9999, 3, 7}

\* the nodata declarations of a water-surface raster: none, negative, positive
NodataDecls == { [set |-> FALSE, val |-> 0],
                 [set |-> TRUE, val |-> -9999],
                 [set |-> TRUE, val |-> 5] }

DemNodataDecls == { [set |-> FALSE, val |-> 0],
                    [set |-> TRUE, val |-> -9999] }

Raster(h, w, x0, y0, d, nd) ==
    [height |-> h, width |-> w, x0 |-> x0, y0 |-> y0, px |-> PixelSize,
     data |-> d, has_nodata |-> nd.set, nodata |-> nd.val]

\* the 4x4 water-surface grid of the scenario, nodata = -9999
ScenarioRows == << <<5, 5, -9999, -9999>>,
                   <<5, 5, -9999, -9999>>,
                   <<-9999, -9999, -9999, -9999>>,
                   <<-9999, -9999, -9999, -9999>> >>

ScenarioGrid ==
    Raster(Len(ScenarioRows), Len(ScenarioRows[1]), 0, 0,
           [c \in Cells(Len(ScenarioRows), Len(ScenarioRows[1])) |-> ScenarioRows[c[1]][c[2]]],
           [set |-> TRUE, val |-> -9999])

GeneratedGrids ==
    { Raster(GridH, GridW, 0, 0, d, nd) :
        d \in [Cells(GridH, GridW) -> WseVals], nd \in NodataDecls }

WseGrids == GeneratedGrids \cup {ScenarioGrid}

\* no raster opened
NoRaster == Raster(0, 0, 0, 0, [c \in Cells(0, 0) |-> 0], [set |-> FALSE, val |-> 0])

\* src.shape
Shape(r) == <<r.height, r.width>>

\* src.bounds: (left, bottom, right, top)
Bounds(r) == <<r.x0, r.y0 - r.height * r.px, r.x0 + r.width * r.px, r.y0>>

RasterCells(r) == Cells(r.height, r.width)

\* numpy: data != src.nodata; comparing with None is true of every cell
NotNodata(r, c) == (~r.has_nodata) \/ r.data[c] # r.nodata

----------------------------------------------------------------------------
(* rasterio.features.shapes and GeoDataFrame.dissolve *)

Neighbours4(c) == { <<c[1] + 1, c[2]>>, <<c[1] - 1, c[2]>>,
                    <<c[1], c[2] + 1>>, <<c[1], c[2] - 1>> }

RECURSIVE Grow(_, _)
Grow(region, S) ==
    LET next == region \cup { c \in S : Neighbours4(c) \cap region # {} }
    IN  IF next = region THEN region ELSE Grow(next, S)

RECURSIVE Components(_)
Components(S) ==
    IF S = {} THEN {}
    ELSE LET seed == CHOOSE c \in S : TRUE
             reg == Grow({seed}, S)
         IN  {reg} \cup Components(S \ reg)

\* shapes(image, mask=mask): one (geom, value) per connected region of equal
\* image value among the cells the mask keeps
shapes(image, mask) ==
    UNION { { [geom |-> reg, value |-> v] :
                reg \in Components({ c \in mask : image[c] = v }) } : v \in {0, 1} }

\* flood_mask.astype(np.uint8)
AsUint8(mask, r) == [c \in RasterCells(r) |-> IF c \in mask THEN 1 ELSE 0]

\* gdf.dissolve(): all rows unioned into one feature
dissolve(polygons) == { [flooded |-> 1, geometry |-> UNION polygons] }

----------------------------------------------------------------------------
(* create_flood_extent_polygon *)

\* generated rasters whose cells alternate between two values
Checker(h, w, a, b) == [c \in Cells(h, w) |-> IF (c[1] + c[2]) % 2 = 0 THEN a ELSE b]

CheckerWse ==
    { Raster(GridH, GridW, 0, 0, Checker(GridH, GridW, a, b), nd) :
        a \in WseVals, b \in WseVals, nd \in NodataDecls }

\* terrain rasters sharing the shape and bounds of w
MatchingDems(w) ==
    { Raster(w.height, w.width, w.x0, w.y0, Checker(w.height, w.width, a, b), nd) :
        a \in DemVals, b \in DemVals, nd \in DemNodataDecls }

\* terrain rasters differing from w in shape (and so in bounds) or in bounds alone
MismatchedDems(w) ==
    { Raster(w.height + 1, w.width, w.x0, w.y0, Checker(w.height + 1, w.width, 3, 3),
             [set |-> FALSE, val |-> 0]),
      Raster(w.height, w.width + 1, w.x0, w.y0, Checker(w.height, w.width + 1, 3, 3),
             [set |-> FALSE, val |-> 0]),
      Raster(w.height, w.width, w.x0 + w.px, w.y0, Checker(w.height, w.width, 3, 3),
             [set |-> FALSE, val |-> 0]) }

\* dem_path = None
NoDem == [present |-> FALSE, r |-> NoRaster]

\* the state before the call
NoFlood == [status |-> "idle", msg |-> "", dem_read |-> FALSE, mask_done |-> FALSE,
            flood_mask |-> {}, polygons |-> {}, gdf |-> {}]

\* the check that compares the shapes and forgets the bounds
DimsMismatch_ShapeOnly(w, d) == Shape(w) # Shape(d)

\* wse_data.shape != dem_src.shape or wse_src.bounds != dem_src.bounds
DimsMismatch(w, d) == Shape(w) # Shape(d) \/ Bounds(w) # Bounds(d)

\* the mask that forgets the terrain sentinel
FloodMaskDem_NoDemSentinel(w, d) ==
    { c \in RasterCells(w) : w.data[c] > d.data[c] /\ NotNodata(w, c) }

\* (wse_data > dem_data) & (wse_data != wse_src.nodata) & (dem_data != dem_src.nodata)
FloodMaskDem(w, d) ==
    { c \in RasterCells(w) : w.data[c] > d.data[c] /\ NotNodata(w, c) /\ NotNodata(d, c) }

\* the mask that forgets the water-surface sentinel
FloodMaskNoDem_NoSentinel(w) == { c \in RasterCells(w) : w.data[c] > 0 }

\* (wse_data != wse_src.nodata) & (wse_data > 0), or wse_data > 0 without a sentinel
FloodMaskNoDem(w) ==
    IF w.has_nodata
    THEN { c \in RasterCells(w) : w.data[c] # w.nodata /\ w.data[c] > 0 }
    ELSE { c \in RasterCells(w) : w.data[c] > 0 }

\* the polygons kept from the shapes generator: those of value 1
FloodedShapes(mask, w) ==
    { s.geom : s \in { t \in shapes(AsUint8(mask, w), mask) : t.value = 1 } }

\* the emptiness check that never fires
NoPolygons_Never(polygons) == FALSE

\* if not polygons
NoPolygons(polygons) == polygons = {}

create_flood_extent_polygon(w, dem) ==
    IF dem.present /\ DimsMismatch(w, dem.r)
    THEN [NoFlood EXCEPT !.status = "ValueError",
                         !.msg = "DEM and WSE rasters must have same dimensions and extent"]
    ELSE LET flood_mask == IF dem.present THEN FloodMaskDem(w, dem.r) ELSE FloodMaskNoDem(w)
             polygons == FloodedShapes(flood_mask, w)
             sofar == [NoFlood EXCEPT !.dem_read = dem.present, !.mask_done = TRUE,
                                      !.flood_mask = flood_mask, !.polygons = polygons]
         IN  IF NoPolygons(polygons)
             THEN [sofar EXCEPT !.status = "ValueError",
                                !.msg = "No flood extent found in WSE raster"]
             ELSE [sofar EXCEPT !.status = "returned", !.gdf = dissolve(polygons)]

CreateFloodExtent ==
    /\ flood.status = "idle"
    /\ flood' = create_flood_extent_polygon(wse_src, dem_src)
    /\ UNCHANGED <<wse_src, dem_src, src, statsVars, sampleVars, profileVars, buildingVars, vectorVars>>

----------------------------------------------------------------------------
(* extract_raster_stats_for_polygon *)

\* values a generated cell takes in the statistics: a sentinel and two levels
StatVals == {-1, 2, 5}

StatNodataDecls == { [set |-> FALSE, val |-> 0], [set |-> TRUE, val |-> -1] }

StatGrids ==
    { Raster(GridH, GridW, 0, 0, Checker(GridH, GridW, a, b), nd) :
        a \in StatVals, b \in StatVals, nd \in StatNodataDecls }

\* centre of the pixel c = <<row, col>>, rows and columns counted from 1
CentreX(r, c) == r.x0 + (c[2] - 1) * r.px + (r.px \div 2)
CentreY(r, c) == r.y0 - (c[1] - 1) * r.px - (r.px \div 2)

\* the pixels of r whose centre lies strictly inside the box
CentresIn(r, minx, miny, maxx, maxy) ==
    { c \in RasterCells(r) : /\ minx < CentreX(r, c) /\ CentreX(r, c) < maxx
                             /\ miny < CentreY(r, c) /\ CentreY(r, c) < maxy }

\* polygons over r: a square bounding box, narrower than a pixel, one pixel
\* or two pixels wide, placed on or around the raster, and any set of the
\* pixel centres in the box as the centres the polygon contains
Polygons(r) ==
    UNION { { [minx |-> x, miny |-> y - s, maxx |-> x + s, maxy |-> y, inside |-> in] :
                in \in SUBSET CentresIn(r, x, y - s, x + s, y) } :
            x \in (r.x0 - r.px)..(r.x0 + r.width * r.px),
            y \in (r.y0 - r.height * r.px)..(r.y0 + r.px),
            s \in {1, r.px, 2 * r.px} }

Floor(a, b) == a \div b
Ceil(a, b) == -((-a) \div b)
Max(a, b) == IF a > b THEN a ELSE b
Min(a, b) == IF a < b THEN a ELSE b

\* rasterio geometry_window: the pixel window of the polygon's bounds, rows
\* and columns counted from 0, stop exclusive
GeometryWindow(r, poly) ==
    [row_start |-> Floor(r.y0 - poly.maxy, r.px), row_stop |-> Ceil(r.y0 - poly.miny, r.px),
     col_start |-> Floor(poly.minx - r.x0, r.px), col_stop |-> Ceil(poly.maxx - r.x0, r.px)]

\* the window shares no pixel with the raster
NoOverlap(r, win) ==
    \/ win.row_start >= r.height \/ win.row_stop <= 0
    \/ win.col_start >= r.width \/ win.col_stop <= 0

\* the cells of the window cropped to the raster, in row-major order
CroppedCells(r, win) ==
    LET r0 == Max(win.row_start, 0) + 1
        r1 == Min(win.row_stop, r.height)
        c0 == Max(win.col_start, 0) + 1
        c1 == Min(win.col_stop, r.width)
        nc == c1 - c0 + 1
    IN  [k \in 1..((r1 - r0 + 1) * nc) |-> <<r0 + ((k - 1) \div nc), c0 + ((k - 1) % nc)>>]

\* rasterio.mask.mask(src, [polygon], crop=True): the cropped window with the
\* pixels outside the polygon set to the fill value, which is the sentinel of
\* the raster or 0 when it has none
MaskFill(r) == IF r.has_nodata THEN r.nodata ELSE 0

mask(r, poly, win) ==
    LET cells == CroppedCells(r, win)
    IN  [k \in 1..Len(cells) |-> IF cells[k] \in poly.inside THEN r.data[cells[k]] ELSE MaskFill(r)]

\* out_image[out_image != nodata] if nodata is not None else out_image.flatten()
ValidData(r, out_image) ==
    IF r.has_nodata THEN SelectSeq(out_image, LAMBDA v : v # r.nodata) ELSE out_image

RECURSIVE SumSeq(_)
SumSeq(q) == IF q = <<>> THEN 0 ELSE Head(q) + SumSeq(Tail(q))

SeqRange(q) == { q[k] : k \in 1..Len(q) }

NaN == [nan |-> TRUE, num |-> 0, den |-> 1]
Float(n, d) == [nan |-> FALSE, num |-> n, den |-> d]

\* np.mean, np.min, np.max and np.std (as the population variance n*sum(v^2) -
\* sum(v)^2 over n^2) of a non-empty sequence
Statistics(q) ==
    LET n == Len(q)
        sm == SumSeq(q)
    IN  [mean |-> Float(sm, n),
         min |-> Float(CHOOSE v \in SeqRange(q) : \A u \in SeqRange(q) : v <= u, 1),
         max |-> Float(CHOOSE v \in SeqRange(q) : \A u \in SeqRange(q) : v >= u, 1),
         std |-> Float(n * SumSeq([k \in 1..n |-> q[k] * q[k]]) - sm * sm, n * n)]

Undefined == [mean |-> NaN, min |-> NaN, max |-> NaN, std |-> NaN]

NoStats == [status |-> "idle", msg |-> "", valid_data |-> <<>>, result |-> Undefined]

extract_raster_stats_for_polygon(r, poly) ==
    LET win == GeometryWindow(r, poly)
    IN  IF NoOverlap(r, win)
        THEN [NoStats EXCEPT !.status = "ValueError",
                             !.msg = "Input shapes do not overlap raster."]
        ELSE LET valid_data == ValidData(r, mask(r, poly, win))
             IN  IF Len(valid_data) = 0
                 THEN [NoStats EXCEPT !.status = "returned"]
                 ELSE [NoStats EXCEPT !.status = "returned", !.valid_data = valid_data,
                                      !.result = Statistics(valid_data)]

NoPolygon == [minx |-> 0, miny |-> 0, maxx |-> 0, maxy |-> 0, inside |-> {}]

ExtractStats ==
    /\ stats.status = "idle"
    /\ polygon # NoPolygon
    /\ stats' = extract_raster_stats_for_polygon(src, polygon)
    /\ UNCHANGED <<src, polygon, floodVars, sampleVars, profileVars, buildingVars, vectorVars>>

----------------------------------------------------------------------------
(* sample_raster_at_points *)

\* src.index(x, y): row and column of the pixel, counted from 0
Index(r, pt) == <<Floor(r.y0 - pt[2], r.px), Floor(pt[1] - r.x0, r.px)>>

\* src.sample: the value of the pixel at the point; a point off the grid
\* reads the fill value, the sentinel of the raster or 0 when it has none
SampleAt(r, pt) ==
    LET rc == Index(r, pt)
    IN  IF rc[1] < 0 \/ rc[2] < 0 \/ rc[1] >= r.height \/ rc[2] >= r.width
        THEN MaskFill(r)
        ELSE r.data[<<rc[1] + 1, rc[2] + 1>>]

\* the conversion that never reports a missing value
ToFloat_NoSentinel(r, v) == Float(v, 1)

\* float(val[0]) if val[0] != src.nodata else np.nan
ToFloat(r, v) == IF (~r.has_nodata) \/ v # r.nodata THEN Float(v, 1) ELSE NaN

sample_raster_at_points(r, pts) == [k \in 1..Len(pts) |-> ToFloat(r, SampleAt(r, pts[k]))]

\* the coordinates sampled on r: the centre of every pixel, the top-left
\* corner of the raster, and points left of, above, on the right edge of and
\* on the bottom edge of the raster
SamplePoints(r) ==
    { <<CentreX(r, c), CentreY(r, c)>> : c \in RasterCells(r) }
    \cup { <<r.x0, r.y0>>,
           <<r.x0 - 1, r.y0 - 1>>, <<r.x0 + 1, r.y0 + 1>>,
           <<r.x0 + r.width * r.px, r.y0 - 1>>, <<r.x0 + 1, r.y0 - r.height * r.px>> }

SeqsUpTo(S, n) == UNION { [1..k -> S] : k \in 0..n }

NoSample == [status |-> "idle", values |-> <<>>]

SampleRaster ==
    /\ sampled.status = "idle"
    /\ src # NoRaster
    /\ sampled' = [status |-> "returned", values |-> sample_raster_at_points(src, points)]
    /\ UNCHANGED <<src, points, floodVars, statsVars, profileVars, buildingVars, vectorVars>>

----------------------------------------------------------------------------
(* extract_elevation_profile *)

\* the factor from degrees to approximate metres
DegToMetres == 111000

\* Lines are straight, run east or south from their start and have a length
\* counted in millionths of a degree, which is also the coordinate unit of
\* the rasters they cross.
LineLengths == {0, 450, 901, 1000, 4500, 9009, 9010, 15000}

Lines(r) ==
    { [x |-> x, y |-> y, dir |-> d, length |-> l] :
        x \in {r.x0 - 1, r.x0 + 1}, y \in {r.y0 - 1}, d \in {"E", "S"}, l \in LineLengths }

\* rasters whose pixels are wide enough for a line to cross several of them
ProfileGrids == { [r EXCEPT !.px = 1000 * PixelSize] : r \in CheckerWse }

\* int(line_geometry.length * 111000), the length being l millionths of a degree
LengthMetres(l) == (l * DegToMetres) \div 1000000

\* the clamp that forgets the lower limit
Clamp_NoLower(n) == Min(n, 1000)

\* max(100, min(num_points, 1000))
Clamp(n) == Max(100, Min(n, 1000))

\* an interpolation at i / num_points
Interpolate_OverN(ln, at, n) ==
    IF ln.dir = "E"
    THEN [xn |-> ln.x * n + at * ln.length, yn |-> ln.y * n, den |-> n]
    ELSE [xn |-> ln.x * n, yn |-> ln.y * n - at * ln.length, den |-> n]

\* line_geometry.interpolate(i / (num_points - 1), normalized=True): the point
\* at that fraction of the length, as numerators over num_points - 1
Interpolate(ln, at, n) ==
    IF ln.dir = "E"
    THEN [xn |-> ln.x * (n - 1) + at * ln.length, yn |-> ln.y * (n - 1), den |-> n - 1]
    ELSE [xn |-> ln.x * (n - 1), yn |-> ln.y * (n - 1) - at * ln.length, den |-> n - 1]

\* src.sample at a point with rational coordinates
SampleAtRational(r, q) ==
    LET row == Floor(r.y0 * q.den - q.yn, r.px * q.den)
        col == Floor(q.xn - r.x0 * q.den, r.px * q.den)
    IN  IF row < 0 \/ col < 0 \/ row >= r.height \/ col >= r.width
        THEN MaskFill(r)
        ELSE r.data[<<row + 1, col + 1>>]

\* the two lists returned, with the points the samples were taken at:
\* distances[k] is i / (num_points - 1) * length *
\* 111000 for i = k - 1, kept as the numerator dist_num[k] over dist_den;
\* the length being in millionths of a degree, the fraction is
\* i * l * 111000 / ((num_points - 1) * 1000000), reduced by 1000
extract_elevation_profile(r, ln) ==
    LET num_points == Clamp(LengthMetres(ln.length))
    IN  [dist_den |-> (num_points - 1) * (1000000 \div 1000),
         dist_num |-> [k \in 1..num_points |-> (k - 1) * ln.length * (DegToMetres \div 1000)],
         sample_points |-> [k \in 1..num_points |-> Interpolate(ln, k - 1, num_points)],
         elevations |-> [k \in 1..num_points |->
                            ToFloat(r, SampleAtRational(r, Interpolate(ln, k - 1, num_points)))]]

NoLine == [x |-> 0, y |-> 0, dir |-> "", length |-> 0]

NoProfile == [status |-> "idle", dist_den |-> 1, dist_num |-> <<>>, sample_points |-> <<>>,
              elevations |-> <<>>]

ExtractProfile ==
    /\ profile.status = "idle"
    /\ line_geometry # NoLine
    /\ profile' = [status |-> "returned"] @@ extract_elevation_profile(src, line_geometry)
    /\ UNCHANGED <<src, line_geometry, floodVars, statsVars, sampleVars, buildingVars, vectorVars>>

----------------------------------------------------------------------------
(* download_building_footprints *)

\* the orders in which the set of tile keys 1..n may be iterated
Orders(n) == { q \in [1..n -> 1..n] : \A a, b \in 1..n : a # b => q[a] # q[b] }

\* what a tile's URL serves: per feature, whether its geometry intersects the
\* area of interest
TileContents == SeqsUpTo(BOOLEAN, MaxFeatures)

\* gdf[gdf.geometry.intersects(aoi_polygon)]: the features kept, in order
RECURSIVE Intersecting(_, _, _)
Intersecting(key, feats, k) ==
    IF k > Len(feats) THEN <<>>
    ELSE (IF feats[k] THEN <<[tile |-> key, feature |-> k]>> ELSE <<>>)
         \o Intersecting(key, feats, k + 1)

\* identifiers that start again at 0 in every tile
AssignIds_PerTile(gdf, first) ==
    [k \in 1..Len(gdf) |->
        [tile |-> gdf[k].tile, feature |-> gdf[k].feature, building_id |-> k - 1]]

\* gdf['building_id'] = range(idx, idx + len(gdf))
AssignIds(gdf, first) ==
    [k \in 1..Len(gdf) |->
        [tile |-> gdf[k].tile, feature |-> gdf[k].feature, building_id |-> first + k - 1]]

\* a handler that leaves the loop
ExceptHandler_Break(combined, warns, key, at, n) ==
    [combined_gdf |-> combined, warnings |-> Append(warns, key), i |-> n]

\* except Exception as e: st.warning(...); the loop goes on with the next tile
ExceptHandler(combined, warns, key, at, n) ==
    [combined_gdf |-> combined, warnings |-> Append(warns, key), i |-> at + 1]

\* a fraction that starts from 0.3
TileProgress_From3(at, n) == [num |-> 8 * (at + 1) + 3 * n, den |-> 10 * n, handled |-> at]

\* progress_callback((i + 1) / len(quad_keys) * 0.8 + 0.1, ...), as a fraction,
\* with the number of tiles handled when it is given
TileProgress(at, n) == [num |-> 8 * (at + 1) + n, den |-> 10 * n, handled |-> at]

\* the rows a key may have in the manifest
ManifestRows == 0..2

\* a test that takes the first of several rows
ManifestMatch_First(rows) == rows >= 1

\* rows.shape[0] == 1
ManifestMatch(rows) == rows = 1

\* no earlier call
NoCall == [made |-> FALSE, quad_keys |-> <<>>, combined_gdf |-> <<>>, fetched |-> <<>>]

\* the manifest and the tile URLs serve a key what they served it in the
\* earlier call
Serves(key, rows, outcome, feats) ==
    first_call.made
    => \E k \in 1..Len(first_call.fetched) :
          first_call.fetched[k]
            = [key |-> key, rows |-> rows, outcome |-> outcome, feats |-> feats]

\* the call: the tiles of the bounding box are collected into a set and
\* listed, in the order the set iterates, and progress 0.1 is reported
Start ==
    /\ pc = "idle"
    /\ quad_keys' \in Orders(aoi_polygon)
    /\ pc' = "loop"
    /\ progress' = <<[num |-> 1, den |-> 10, handled |-> 0]>>
    /\ UNCHANGED <<i, idx, combined_gdf, warnings, fetched>>
    /\ UNCHANGED <<floodVars, src, statsVars, sampleVars, profileVars, vectorVars>>

\* one iteration whose tile has no row or several rows in the manifest
SkipTile ==
    /\ pc = "loop" /\ i < Len(quad_keys)
    /\ \E rows \in ManifestRows :
          /\ ~ManifestMatch(rows)
          /\ Serves(quad_keys[i + 1], rows, "skipped", <<>>)
          /\ fetched' = Append(fetched, [key |-> quad_keys[i + 1], rows |-> rows,
                                         outcome |-> "skipped", feats |-> <<>>])
    /\ progress' = Append(progress, TileProgress(i, Len(quad_keys)))
    /\ i' = i + 1
    /\ UNCHANGED <<pc, quad_keys, idx, combined_gdf, warnings>>
    /\ UNCHANGED <<floodVars, src, statsVars, sampleVars, profileVars, vectorVars>>

\* one iteration whose tile has exactly one row: its features are fetched,
\* filtered, numbered and merged
MergeTile ==
    /\ pc = "loop" /\ i < Len(quad_keys)
    /\ \E rows \in ManifestRows, feats \in TileContents :
          LET key == quad_keys[i + 1]
              gdf == AssignIds(Intersecting(key, feats, 1), idx)
          IN  /\ ManifestMatch(rows)
              /\ Serves(key, rows, "merged", feats)
              /\ idx' = idx + Len(gdf)
              /\ combined_gdf' = combined_gdf \o gdf
              /\ fetched' = Append(fetched, [key |-> key, rows |-> rows,
                                             outcome |-> "merged", feats |-> feats])
    /\ progress' = Append(progress, TileProgress(i, Len(quad_keys)))
    /\ i' = i + 1
    /\ UNCHANGED <<pc, quad_keys, warnings>>
    /\ UNCHANGED <<floodVars, src, statsVars, sampleVars, profileVars, vectorVars>>

\* one iteration whose fetch or parse raises before any identifier is given
FetchFails ==
    /\ pc = "loop" /\ i < Len(quad_keys)
    /\ \E rows \in ManifestRows :
          LET key == quad_keys[i + 1]
              h == ExceptHandler(combined_gdf, warnings, key, i, Len(quad_keys))
          IN  /\ ManifestMatch(rows)
              /\ Serves(key, rows, "fetch_error", <<>>)
              /\ combined_gdf' = h.combined_gdf
              /\ warnings' = h.warnings
              /\ i' = h.i
              /\ fetched' = Append(fetched, [key |-> key, rows |-> rows,
                                             outcome |-> "fetch_error", feats |-> <<>>])
    /\ progress' = Append(progress, TileProgress(i, Len(quad_keys)))
    /\ UNCHANGED <<pc, quad_keys, idx>>
    /\ UNCHANGED <<floodVars, src, statsVars, sampleVars, profileVars, vectorVars>>

\* one iteration that raises in the merge, after idx has been advanced
MergeFails ==
    /\ pc = "loop" /\ i < Len(quad_keys)
    /\ \E rows \in ManifestRows, feats \in TileContents :
          LET key == quad_keys[i + 1]
              gdf == AssignIds(Intersecting(key, feats, 1), idx)
              h == ExceptHandler(combined_gdf, warnings, key, i, Len(quad_keys))
          IN  /\ ManifestMatch(rows)
              /\ Serves(key, rows, "merge_error", feats)
              /\ idx' = idx + Len(gdf)
              /\ combined_gdf' = h.combined_gdf
              /\ warnings' = h.warnings
              /\ i' = h.i
              /\ fetched' = Append(fetched, [key |-> key, rows |-> rows,
                                             outcome |-> "merge_error", feats |-> feats])
    /\ progress' = Append(progress, TileProgress(i, Len(quad_keys)))
    /\ UNCHANGED <<pc, quad_keys>>
    /\ UNCHANGED <<floodVars, src, statsVars, sampleVars, profileVars, vectorVars>>

\* after the loop: progress 1.0 is reported and combined_gdf is returned
Finish ==
    /\ pc = "loop" /\ i >= Len(quad_keys)
    /\ pc' = "done"
    /\ progress' = Append(progress, [num |-> 1, den |-> 1, handled |-> i])
    /\ UNCHANGED <<quad_keys, i, idx, combined_gdf, warnings, fetched>>
    /\ UNCHANGED <<floodVars, src, statsVars, sampleVars, profileVars, vectorVars>>

\* download_building_footprints is called once more with the same area of
\* interest, while the manifest and the tiles serve what they served before
CallAgain ==
    /\ pc = "done" /\ ~first_call.made
    /\ first_call' = [made |-> TRUE, quad_keys |-> quad_keys,
                      combined_gdf |-> combined_gdf, fetched |-> fetched]
    /\ pc' = "idle" /\ quad_keys' = <<>> /\ i' = 0 /\ idx' = 0 /\ combined_gdf' = <<>>
    /\ warnings' = <<>> /\ progress' = <<>> /\ fetched' = <<>>
    /\ UNCHANGED <<aoi_polygon, outsideRepeat>>

----------------------------------------------------------------------------
(* Coordinate reference systems and vector layers *)

\* config.REQUIRED_CRS
REQUIRED_CRS == "EPSG:4326"

\* a CRS object: an authority and a code, or None for a file that declares none
CRS(auth, code) == [none |-> FALSE, auth |-> auth, code |-> code]

NoneCRS == [none |-> TRUE, auth |-> "", code |-> ""]

\* the systems the inputs are declared in: geographic WGS 84, web mercator,
\* and WGS 84 under its OGC name
DeclaredCRS == { CRS("EPSG", "4326"), CRS("EPSG", "3857"), CRS("OGC", "CRS84") }

\* crs.to_string()
to_string(crs) == crs.auth \o ":" \o crs.code

\* CRS.from_user_input(s), for the strings a target is given as
from_user_input(s) == CHOOSE crs \in DeclaredCRS : to_string(crs) = s

\* the targets a caller may name
TargetCRS == { "EPSG:4326", "EPSG:3857" }

\* whether the coordinates of a system are degrees or projected metres
Geographic(crs) == crs.code \in { "4326", "CRS84" }

\* the coordinate transformation between two systems; a projected unit is
\* half a geographic one on this lattice
Transform(from, to, xy) ==
    IF Geographic(from) = Geographic(to) THEN xy
    ELSE IF Geographic(from) THEN <<2 * xy[1], 2 * xy[2]>>
    ELSE <<xy[1] \div 2, xy[2] \div 2>>

\* the geometries of the features: a type and its vertices
Geometries ==
    { [type |-> "Point", coords |-> <<<<2, 6>>>>],
      [type |-> "Point", coords |-> <<<<5, 3>>>>],
      [type |-> "LineString", coords |-> <<<<1, 1>>, <<7, 3>>>>] }

\* the layers read from a shapefile: a declared CRS or none, and the features
\* in file order
Layers ==
    { [crs |-> c, features |-> f] :
        c \in DeclaredCRS \cup {NoneCRS}, f \in SeqsUpTo(Geometries, MaxLayer) }

NoLayer == [crs |-> NoneCRS, features |-> <<>>]

\* gdf.to_crs(target): every vertex is transformed and the layer declares
\* the target
to_crs(gdf, target) ==
    [crs |-> from_user_input(target),
     features |->
        [k \in 1..Len(gdf.features) |->
            [type |-> gdf.features[k].type,
             coords |-> [v \in 1..Len(gdf.features[k].coords) |->
                            Transform(gdf.crs, from_user_input(target),
                                      gdf.features[k].coords[v])]]]]

----------------------------------------------------------------------------
(* load_shapefile *)

\* a load that returns the layer as read
load_shapefile_AsRead(gdf, target) ==
    IF gdf.crs.none THEN [status |-> "ValueError", gdf |-> NoLayer]
    ELSE [status |-> "returned", gdf |-> gdf]

\* the layer is read; one without a CRS raises, one whose CRS string is not
\* the target is transformed, and the layer is returned
load_shapefile(gdf, target) ==
    IF gdf.crs.none THEN [status |-> "ValueError", gdf |-> NoLayer]
    ELSE IF to_string(gdf.crs) # target
         THEN [status |-> "returned", gdf |-> to_crs(gdf, target)]
         ELSE [status |-> "returned", gdf |-> gdf]

NoLoad == [status |-> "idle", gdf |-> NoLayer]

LoadShapefile ==
    /\ loaded.status = "idle"
    /\ loaded' = load_shapefile(layer, target_crs)
    /\ UNCHANGED <<layer, target_crs, outsideLoad>>

----------------------------------------------------------------------------
(* reproject_all_files *)

\* the keys of raster_files and vector_files, in the order the dictionaries
\* are filled
RasterNames == <<"dem", "wse">>

VectorNames == <<"cross_sections", "points">>

Names == RasterNames \o VectorNames

Range(q) == { q[k] : k \in 1..Len(q) }

\* a dictionary without entries
NoFiles == <<>>

\* an upload slot left empty (file_obj is None)
AbsentRaster == [present |-> FALSE, crs |-> NoneCRS, r |-> NoRaster]

AbsentVector == [present |-> FALSE, readable |-> FALSE, gdf |-> NoLayer]

\* an uploaded .shp that gpd.read_file cannot open
UnreadableVector == [present |-> TRUE, readable |-> FALSE, gdf |-> NoLayer]

\* the grid of the uploaded rasters
UploadGrid == [ScenarioGrid EXCEPT !.x0 = 4, !.y0 = 8]

\* the features of the uploaded layers
UploadFeatures ==
    << [type |-> "Point", coords |-> <<<<2, 6>>>>],
       [type |-> "LineString", coords |-> <<<<1, 1>>, <<7, 3>>>>] >>

RasterUploads ==
    {AbsentRaster}
    \cup { [present |-> TRUE, crs |-> c, r |-> UploadGrid] : c \in DeclaredCRS \cup {NoneCRS} }

VectorUploads ==
    {AbsentVector, UnreadableVector}
    \cup { [present |-> TRUE, readable |-> TRUE,
             gdf |-> [crs |-> c, features |-> UploadFeatures]] :
             c \in DeclaredCRS \cup {NoneCRS} }

\* a check that never finds the target
check_raster_crs_NeverMatches(f, target) ==
    IF f.crs.none THEN [raised |-> TRUE, value |-> FALSE]
    ELSE [raised |-> FALSE, value |-> FALSE]

\* src.crs.to_string() == target_crs; a raster without CRS has src.crs None
\* and the attribute access raises
check_raster_crs(f, target) ==
    IF f.crs.none THEN [raised |-> TRUE, value |-> FALSE]
    ELSE [raised |-> FALSE, value |-> to_string(f.crs) = target]

\* reproject_raster: the grid is given the default transform of the target
\* and resampled with the nearest neighbour; the output declares the target
reproject_raster(f, target) ==
    LET to == from_user_input(target)
        origin == Transform(f.crs, to, <<f.r.x0, f.r.y0>>)
        size == Transform(f.crs, to, <<f.r.px, f.r.px>>)
    IN  [present |-> TRUE, crs |-> to,
         r |-> [f.r EXCEPT !.x0 = origin[1], !.y0 = origin[2], !.px = Max(1, size[1])]]

\* a normalisation that leaves a layer without CRS as it is
ReprojectLayer_LeavesUndeclared(gdf, target) ==
    IF gdf.crs.none THEN gdf
    ELSE IF to_string(gdf.crs) # target THEN to_crs(gdf, target)
    ELSE gdf

\* the layer branch: no CRS is taken to be the target, another CRS is
\* transformed, the target is kept
ReprojectLayer(gdf, target) ==
    IF gdf.crs.none THEN [gdf EXCEPT !.crs = from_user_input(target)]
    ELSE IF to_string(gdf.crs) # target THEN to_crs(gdf, target)
    ELSE gdf

\* which of the three branches a layer takes
LayerBranch(gdf, target) ==
    IF gdf.crs.none THEN "assign_crs"
    ELSE IF to_string(gdf.crs) # target THEN "to_crs"
    ELSE "unchanged"

\* os.path.join(temp_dir, f"{name}_4326.tif") and its .shp counterpart
RasterPath(name) == name \o "_4326.tif"

VectorPath(name) == name \o "_4326.shp"

\* d[k] = v
Put(d, k, v) == [x \in DOMAIN d \cup {k} |-> IF x = k THEN v ELSE d[x]]

InRasters == pos < Len(RasterNames)

\* the call: the dictionaries and the temporary directory are created
StartReproject ==
    /\ rpc = "idle" /\ pass < MaxPasses
    /\ rpc' = "loop" /\ pos' = 0 /\ current_file' = 0
    /\ reprojected_rasters' = NoFiles /\ reprojected_vectors' = NoFiles
    /\ temp_dir' = NoFiles /\ ops' = <<>>
    /\ pass' = pass + 1
    /\ disk' = disk \cup {pass + 1}
    /\ UNCHANGED <<raster_files, vector_files, previous, target_crs, session_state, handed,
                   outsideReproject>>

\* a name whose slot is empty
SkipAbsent ==
    /\ rpc = "loop" /\ pos < Len(Names)
    /\ IF InRasters THEN ~raster_files[Names[pos + 1]].present
                    ELSE ~vector_files[Names[pos + 1]].present
    /\ pos' = pos + 1
    /\ UNCHANGED <<raster_files, vector_files, rpc, current_file, reprojected_rasters,
                   reprojected_vectors, temp_dir, ops, pass, previous, target_crs, sessionVars, outsideReproject>>

\* a raster already in the target: shutil.copy2
CopyRaster ==
    /\ rpc = "loop" /\ InRasters
    /\ LET name == Names[pos + 1]
           f == raster_files[name]
           chk == check_raster_crs(f, target_crs)
       IN  /\ f.present /\ ~chk.raised /\ chk.value
           /\ temp_dir' = Put(temp_dir, RasterPath(name), f)
           /\ reprojected_rasters' = Put(reprojected_rasters, name, RasterPath(name))
           /\ ops' = Append(ops, [name |-> name, op |-> "copy2"])
    /\ current_file' = current_file + 1
    /\ pos' = pos + 1
    /\ UNCHANGED <<raster_files, vector_files, rpc, reprojected_vectors, pass, previous,
                   target_crs, sessionVars, outsideReproject>>

\* a raster in another CRS: reproject_raster
ReprojectRaster ==
    /\ rpc = "loop" /\ InRasters
    /\ LET name == Names[pos + 1]
           f == raster_files[name]
           chk == check_raster_crs(f, target_crs)
       IN  /\ f.present /\ ~chk.raised /\ ~chk.value
           /\ temp_dir' = Put(temp_dir, RasterPath(name), reproject_raster(f, target_crs))
           /\ reprojected_rasters' = Put(reprojected_rasters, name, RasterPath(name))
           /\ ops' = Append(ops, [name |-> name, op |-> "reproject_raster"])
    /\ current_file' = current_file + 1
    /\ pos' = pos + 1
    /\ UNCHANGED <<raster_files, vector_files, rpc, reprojected_vectors, pass, previous,
                   target_crs, sessionVars, outsideReproject>>

\* a raster whose check raises: the finally clause removes the temporary
\* copy and the exception leaves reproject_all_files
RasterRaises ==
    /\ rpc = "loop" /\ InRasters
    /\ LET name == Names[pos + 1]
           f == raster_files[name]
       IN  /\ f.present /\ check_raster_crs(f, target_crs).raised
           /\ ops' = Append(ops, [name |-> name, op |-> "AttributeError"])
    /\ rpc' = "raised"
    /\ current_file' = current_file + 1
    /\ UNCHANGED <<raster_files, vector_files, pos, reprojected_rasters, reprojected_vectors,
                   temp_dir, pass, previous, target_crs, sessionVars, outsideReproject>>

\* a layer: read, brought to the target and written with to_file
ReprojectVector ==
    /\ rpc = "loop" /\ ~InRasters /\ pos < Len(Names)
    /\ LET name == Names[pos + 1]
           f == vector_files[name]
       IN  /\ f.present /\ f.readable
           /\ temp_dir' = Put(temp_dir, VectorPath(name),
                              [present |-> TRUE, readable |-> TRUE,
                               gdf |-> ReprojectLayer(f.gdf, target_crs)])
           /\ reprojected_vectors' = Put(reprojected_vectors, name, VectorPath(name))
           /\ ops' = Append(ops, [name |-> name, op |-> LayerBranch(f.gdf, target_crs)])
    /\ current_file' = current_file + 1
    /\ pos' = pos + 1
    /\ UNCHANGED <<raster_files, vector_files, rpc, reprojected_rasters, pass, previous,
                   target_crs, sessionVars, outsideReproject>>

\* a layer gpd.read_file cannot open: the finally clause removes the
\* temporary copies and the exception leaves reproject_all_files
VectorRaises ==
    /\ rpc = "loop" /\ ~InRasters /\ pos < Len(Names)
    /\ LET name == Names[pos + 1]
           f == vector_files[name]
       IN  /\ f.present /\ ~f.readable
           /\ ops' = Append(ops, [name |-> name, op |-> "DriverError"])
    /\ rpc' = "raised"
    /\ current_file' = current_file + 1
    /\ UNCHANGED <<raster_files, vector_files, pos, reprojected_rasters, reprojected_vectors,
                   temp_dir, pass, previous, target_crs, sessionVars, outsideReproject>>

\* after both loops the directory is noted in the session state and the two
\* dictionaries are returned
FinishReproject ==
    /\ rpc = "loop" /\ pos = Len(Names)
    /\ rpc' = "done"
    /\ session_state' = Put(session_state, "temp_reprojected_dir", pass)
    /\ UNCHANGED <<raster_files, vector_files, pos, current_file, reprojected_rasters,
                   reprojected_vectors, temp_dir, ops, pass, previous, target_crs,
                   disk, handed, outsideReproject>>

\* the files a call returned are given to the next call
Reupload ==
    /\ rpc = "done" /\ pass < MaxPasses
    /\ raster_files' =
          [n \in Range(RasterNames) |->
              IF n \in DOMAIN reprojected_rasters THEN temp_dir[reprojected_rasters[n]]
              ELSE AbsentRaster]
    /\ vector_files' =
          [n \in Range(VectorNames) |->
              IF n \in DOMAIN reprojected_vectors THEN temp_dir[reprojected_vectors[n]]
              ELSE AbsentVector]
    /\ previous' = temp_dir
    /\ rpc' = "idle"
    /\ UNCHANGED <<pos, current_file, reprojected_rasters, reprojected_vectors, temp_dir,
                   ops, pass, target_crs, sessionVars, outsideReproject>>

----------------------------------------------------------------------------
(* check_all_inputs_crs *)

NoCheck == [status |-> "idle", all_match |-> FALSE, messages |-> <<>>]

\* the raster branch: the message written for a raster and whether it
\* leaves all_match alone
RasterMessage(f, target) ==
    IF check_raster_crs(f, target).value
    THEN [text |-> "is_in", match |-> TRUE]
    ELSE [text |-> "is_not_in", match |-> FALSE]

\* a layer branch that lets a layer without CRS pass
VectorMessage_NoCrsPasses(f, target) ==
    IF ~f.readable THEN [text |-> "error", match |-> FALSE]
    ELSE IF f.gdf.crs.none THEN [text |-> "has_no_crs", match |-> TRUE]
    ELSE IF to_string(f.gdf.crs) # target THEN [text |-> "is_in_other", match |-> FALSE]
    ELSE [text |-> "is_in", match |-> TRUE]

\* the layer branch: gpd.read_file raising is caught and reported, a layer
\* without CRS and a layer in another CRS are reported, each clearing all_match
VectorMessage(f, target) ==
    IF ~f.readable THEN [text |-> "error", match |-> FALSE]
    ELSE IF f.gdf.crs.none THEN [text |-> "has_no_crs", match |-> FALSE]
    ELSE IF to_string(f.gdf.crs) # target THEN [text |-> "is_in_other", match |-> FALSE]
    ELSE [text |-> "is_in", match |-> TRUE]

\* the names whose file_obj is not None
Provided(files) == { n \in DOMAIN files : files[n].present }

\* both loops; the raster loop has no except clause, so a raster whose
\* check raises ends the call
check_all_inputs_crs(rasters, vectors, target) ==
    IF \E n \in Provided(rasters) : check_raster_crs(rasters[n], target).raised
    THEN [status |-> "AttributeError", all_match |-> FALSE, messages |-> <<>>]
    ELSE LET names == Provided(rasters) \cup Provided(vectors)
             msg == [n \in names |->
                        IF n \in DOMAIN rasters THEN RasterMessage(rasters[n], target)
                        ELSE VectorMessage(vectors[n], target)]
         IN  [status |-> "returned",
              all_match |-> \A n \in names : msg[n].match,
              messages |-> [n \in names |-> msg[n].text]]

CheckAllInputs ==
    /\ checked.status = "idle"
    /\ checked' = check_all_inputs_crs(raster_files, vector_files, target_crs)
    /\ UNCHANGED outsideCheck

----------------------------------------------------------------------------
(* The page: the Auto-Reproject and Clean Up buttons and get_file_paths *)

\* the directory of tempfile.NamedTemporaryFile, which nothing here removes
SystemTemp == 0

\* a path: the directory and the file name below it
Path(d, f) == [dir |-> d, file |-> f]

\* del st.session_state[k]
Del(d, k) == [x \in DOMAIN d \ {k} |-> d[x]]

\* save_uploaded_files: every provided file is written to a fresh temporary
\* file and its path is returned
save_uploaded_files(files, suffix) ==
    [n \in Provided(files) |-> Path(SystemTemp, n \o suffix)]

\* get_file_paths: the reprojected paths when the session state has them,
\* the uploads saved anew otherwise; the names mapped to None are left out
get_file_paths(files, key, suffix) ==
    IF key \in DOMAIN session_state
    THEN LET reprojected == session_state[key]
         IN  [n \in DOMAIN files \cap DOMAIN reprojected |-> reprojected[n]]
    ELSE save_uploaded_files(files, suffix)

\* the Auto-Reproject button: the inputs are checked and, unless all match,
\* given to reproject_all_files
ClickAutoReproject ==
    /\ LET chk == check_all_inputs_crs(raster_files, vector_files, target_crs)
       IN  chk.status = "returned" /\ ~chk.all_match
    /\ StartReproject

\* main.py lines 108-110: the dictionaries returned are kept in the session
\* state; their paths lie in the directory of this call
StoreReprojected ==
    /\ rpc = "done"
    /\ session_state' =
          Put(Put(session_state, "reprojected_rasters",
                  [n \in DOMAIN reprojected_rasters |-> Path(pass, reprojected_rasters[n])]),
              "reprojected_vectors",
              [n \in DOMAIN reprojected_vectors |-> Path(pass, reprojected_vectors[n])])
    /\ rpc' = "idle"
    /\ UNCHANGED <<raster_files, vector_files, pos, current_file, reprojected_rasters,
                   reprojected_vectors, temp_dir, ops, pass, previous, target_crs,
                   disk, handed, outsideReproject>>

\* the Clean Up button: cleanup_temp_files removes the registered directory
\* and its key
CleanupTempFiles ==
    /\ rpc \in {"idle", "raised"}
    /\ "temp_reprojected_dir" \in DOMAIN session_state
    /\ disk' = disk \ {session_state["temp_reprojected_dir"]}
    /\ session_state' = Del(session_state, "temp_reprojected_dir")
    /\ UNCHANGED <<reprojVars, handed, outsideSession>>

\* a run of the page that starts an analysis: the raster and the layer paths
\* are taken from get_file_paths, and each is noted with whether its file is
\* there
RunAnalysis ==
    /\ rpc \in {"idle", "raised"}
    /\ LET raster_paths_ == get_file_paths(raster_files, "reprojected_rasters", ".tif")
           vector_paths_ == get_file_paths(vector_files, "reprojected_vectors", ".shp")
           given == { raster_paths_[n] : n \in DOMAIN raster_paths_ }
                    \cup { vector_paths_[n] : n \in DOMAIN vector_paths_ }
       IN  handed' = { [path |-> q, exists |-> q.dir = SystemTemp \/ q.dir \in disk] :
                         q \in given }
    /\ UNCHANGED <<reprojVars, session_state, disk, outsideSession>>

----------------------------------------------------------------------------
(* run_building_analysis: the existing-layer mode *)

\* a footprint: an axis-parallel rectangle given by two opposite corners
Rect(minx, miny, maxx, maxy) ==
    [type |-> "Polygon", coords |-> <<<<minx, miny>>, <<maxx, maxy>>>>]

\* footprints around a raster whose top-left corner is the origin: inside the
\* first pixel, beside it in the second pixel of the first row, across the
\* centre of the first four pixels, and far from the raster
Footprints ==
    { Rect(0, -1, 1, 0),
      Rect(PixelSize, -1, PixelSize + 1, 0),
      Rect(PixelSize - 1, -(PixelSize + 1), PixelSize + 1, -(PixelSize - 1)),
      Rect(5 * PixelSize, -1, 5 * PixelSize + 1, 0) }

\* the building layers a caller supplies
BuildingLayers ==
    { [crs |-> c, features |-> f] :
        c \in { CRS("EPSG", "4326"), CRS("EPSG", "3857"), NoneCRS },
        f \in SeqsUpTo(Footprints, MaxLayer) }

\* the bounding box of a geometry
Box(geom) ==
    [minx |-> Min(geom.coords[1][1], geom.coords[2][1]),
     miny |-> Min(geom.coords[1][2], geom.coords[2][2]),
     maxx |-> Max(geom.coords[1][1], geom.coords[2][1]),
     maxy |-> Max(geom.coords[1][2], geom.coords[2][2])]

\* the square a cell of r covers
CellBox(r, c) ==
    [minx |-> r.x0 + (c[2] - 1) * r.px, miny |-> r.y0 - c[1] * r.px,
     maxx |-> r.x0 + c[2] * r.px, maxy |-> r.y0 - (c[1] - 1) * r.px]

\* a relation that asks for a shared interior
intersects_Interior(geom, extent, r) ==
    \E c \in extent :
        /\ Box(geom).minx < CellBox(r, c).maxx /\ Box(geom).maxx > CellBox(r, c).minx
        /\ Box(geom).miny < CellBox(r, c).maxy /\ Box(geom).maxy > CellBox(r, c).miny

\* geometry.intersects(extent): the closed rectangle and the closed cells of
\* the extent share a point
intersects(geom, extent, r) ==
    \E c \in extent :
        /\ Box(geom).minx <= CellBox(r, c).maxx /\ Box(geom).maxx >= CellBox(r, c).minx
        /\ Box(geom).miny <= CellBox(r, c).maxy /\ Box(geom).maxy >= CellBox(r, c).miny

\* gdf[gdf.geometry.intersects(extent)]: the rows kept, in order, under the
\* labels they had in the layer
RECURSIVE Filter(_, _, _, _)
Filter(features, extent, r, k) ==
    IF k > Len(features) THEN <<>>
    ELSE (IF intersects(features[k], extent, r)
          THEN <<[label |-> k - 1, geometry |-> features[k]]>> ELSE <<>>)
         \o Filter(features, extent, r, k + 1)

\* flood_extent.geometry.iloc[0]
FirstGeometry(gdf) == (CHOOSE row \in gdf : TRUE).geometry

NoBuildings == [status |-> "idle", rows |-> <<>>]

\* the flood extent is created from the water surface alone, the layer is
\* loaded into REQUIRED_CRS and filtered to the extent
RunExistingLayer ==
    /\ buildings_gdf.status = "idle" /\ flood.status = "idle"
    /\ LET flood_extent == create_flood_extent_polygon(wse_src, NoDem)
           gdf == load_shapefile(layer, REQUIRED_CRS)
       IN  /\ flood' = flood_extent
           /\ IF flood_extent.status # "returned"
              THEN /\ loaded' = loaded
                   /\ buildings_gdf' = [status |-> flood_extent.status, rows |-> <<>>]
              ELSE /\ loaded' = gdf
                   /\ IF gdf.status # "returned"
                      THEN buildings_gdf' = [status |-> gdf.status, rows |-> <<>>]
                      ELSE buildings_gdf' =
                              [status |-> "returned",
                               rows |-> Filter(gdf.gdf.features,
                                               FirstGeometry(flood_extent.gdf), wse_src, 1)]
    /\ UNCHANGED <<wse_src, dem_src, layer, target_crs, outsideExisting>>

----------------------------------------------------------------------------
(* analyze_points *)

\* the geometries of a layer meant to hold points: in the first pixel, in the
\* pixel diagonally below it, off the raster, and a line
PointGeometries ==
    { [type |-> "Point", coords |-> <<<<1, -1>>>>],
      [type |-> "Point", coords |-> <<<<PixelSize + 1, -(PixelSize + 1)>>>>],
      [type |-> "Point", coords |-> <<<<-1, -1>>>>],
      [type |-> "LineString", coords |-> <<<<1, -1>>, <<PixelSize + 1, -1>>>>] }

\* the layers load_shapefile hands to the analysis
PointLayers ==
    { [crs |-> from_user_input(REQUIRED_CRS), features |-> f] :
        f \in SeqsUpTo(PointGeometries, MaxLayer) }

\* the rasters sampled
PointRasters ==
    { Raster(GridH, GridW, 0, 0, Checker(GridH, GridW, 5, 0), [set |-> FALSE, val |-> 0]),
      Raster(GridH, GridW, 0, 0, Checker(GridH, GridW, -9999, 7), [set |-> TRUE, val |-> -9999]) }

\* raster_paths: one raster or two, under the names of the uploads
RasterPaths == UNION { [1..n -> PointRasters] : n \in 1..Len(RasterNames) }

\* a check that accepts a layer as soon as it holds one point
extract_point_coordinates_AnyPoint(gdf) ==
    IF gdf.features # <<>> /\ \A k \in 1..Len(gdf.features) : gdf.features[k].type # "Point"
    THEN [status |-> "ValueError", coords |-> <<>>]
    ELSE [status |-> "returned",
          coords |-> [k \in 1..Len(gdf.features) |-> gdf.features[k].coords[1]]]

\* if not all(gdf.geometry.type == 'Point'): raise ValueError; otherwise
\* (geom.x, geom.y) of every geometry, in order
extract_point_coordinates(gdf) ==
    IF \E k \in 1..Len(gdf.features) : gdf.features[k].type # "Point"
    THEN [status |-> "ValueError", coords |-> <<>>]
    ELSE [status |-> "returned",
          coords |-> [k \in 1..Len(gdf.features) |-> gdf.features[k].coords[1]]]

\* no table
NoResults == [longitude |-> <<>>, latitude |-> <<>>, columns |-> <<>>]

\* line 21 raises: the call ends before the table is started
PointsRaise ==
    /\ ppc = "idle" /\ raster_paths # <<>>
    /\ extract_point_coordinates(layer).status = "ValueError"
    /\ ppc' = "ValueError"
    /\ UNCHANGED <<layer, raster_paths, coordinates, results, outsidePoints>>

\* lines 21-28: the coordinates are extracted and the table is started
ExtractCoordinates ==
    /\ ppc = "idle" /\ raster_paths # <<>>
    /\ LET c == extract_point_coordinates(layer)
       IN  /\ c.status = "returned"
           /\ coordinates' = c.coords
           /\ results' = [longitude |-> [k \in 1..Len(c.coords) |-> c.coords[k][1]],
                          latitude |-> [k \in 1..Len(c.coords) |-> c.coords[k][2]],
                          columns |-> <<>>]
    /\ ppc' = "sampling"
    /\ UNCHANGED <<layer, raster_paths, outsidePoints>>

\* lines 31-35: the next raster is sampled at the coordinates
SamplePath ==
    /\ ppc = "sampling" /\ Len(results.columns) < Len(raster_paths)
    /\ LET n == Len(results.columns) + 1
       IN  results' = [results EXCEPT !.columns =
                          Append(@, [name |-> RasterNames[n],
                                     values |-> sample_raster_at_points(raster_paths[n],
                                                                        coordinates)])]
    /\ UNCHANGED <<layer, raster_paths, ppc, coordinates, outsidePoints>>

\* line 37: the table is returned
ReturnTable ==
    /\ ppc = "sampling" /\ Len(results.columns) = Len(raster_paths)
    /\ ppc' = "returned"
    /\ UNCHANGED <<layer, raster_paths, coordinates, results, outsidePoints>>

----------------------------------------------------------------------------
(* format_results_table *)

\* the sampled values of the tables, in thousandths of a foot; np.nan where
\* sample_raster_at_points met the nodata value
Thousandth == 1000

TableValues == { NaN } \cup { Float(n, Thousandth) : n \in {0, 4, 5, 15, 1004} }

NoTable == [status |-> "idle", columns |-> {}, rows |-> <<>>]

\* the tables analyze_points returns: a raster column is there when its path
\* was given
Tables ==
    { [status |-> "built", columns |-> c, rows |-> r] :
        c \in SUBSET {"dem", "wse"},
        r \in SeqsUpTo([dem : TableValues, wse : TableValues], MaxPoints) }

\* df['wse'] - df['dem']: missing when either operand is
Subtract(a, b) ==
    IF a.nan \/ b.nan THEN NaN ELSE Float(a.num - b.num, Thousandth)

\* a clamp that lets a missing difference through
DepthOrZero_KeepsMissing(x) ==
    IF x.nan THEN x
    ELSE IF x.num > 0 THEN x ELSE Float(0, Thousandth)

\* lambda x: x if x > 0 else 0; the comparison is false for np.nan
DepthOrZero(x) ==
    IF ~x.nan /\ x.num > 0 THEN x ELSE Float(0, Thousandth)

\* .round(2): to the nearest hundredth, a tie to the even one; np.nan stays
Round2(x) ==
    IF x.nan THEN x
    ELSE LET q == x.num \div 10
             r == x.num % 10
             up == r > 5 \/ (r = 5 /\ q % 2 = 1)
         IN  Float(10 * (IF up THEN q + 1 ELSE q), Thousandth)

\* column_mapping
Renamed(c) ==
    CASE c = "dem" -> "Ground Elevation (ft)"
      [] c = "wse" -> "Max Water Surface Elevation (ft)"
      [] c = "depth_above_ground" -> "Depth Above Ground (ft)"
      [] OTHER -> c

\* the whole function: the depth column is computed when both columns are
\* there, every numeric column is rounded, the columns are renamed
format_results_table(t) ==
    LET both == {"dem", "wse"} \subseteq t.columns
        cols == IF both THEN t.columns \cup {"depth_above_ground"} ELSE t.columns
    IN  [status |-> "returned",
         columns |-> { Renamed(c) : c \in cols },
         rows |-> [k \in 1..Len(t.rows) |->
                     [dem |-> Round2(t.rows[k].dem),
                      wse |-> Round2(t.rows[k].wse),
                      depth_above_ground |->
                          IF both
                          THEN Round2(DepthOrZero(Subtract(t.rows[k].wse, t.rows[k].dem)))
                          ELSE NaN]]]

FormatResults ==
    /\ df.status = "built" /\ formatted_df.status = "idle"
    /\ formatted_df' = format_results_table(df)
    /\ UNCHANGED <<df, outsideFormat>>

----------------------------------------------------------------------------
(* analyze_buildings *)

\* the footprints analysed over r, as the pixel centres they contain: the
\* first pixel, a sliver inside the first pixel that contains no centre, and
\* a square left of the raster
AnalysisPolygons(r) ==
    { [minx |-> r.x0, miny |-> r.y0 - r.px, maxx |-> r.x0 + r.px, maxy |-> r.y0,
       inside |-> {<<1, 1>>}],
      [minx |-> r.x0, miny |-> r.y0 - 1, maxx |-> r.x0 + 1, maxy |-> r.y0, inside |-> {}],
      [minx |-> r.x0 - r.px, miny |-> r.y0 - 1, maxx |-> r.x0 - r.px + 1, maxy |-> r.y0,
       inside |-> {}] }

\* the row labels of a layer: consecutive after a download, with gaps after
\* the filter of the existing-layer mode
Labels == {0, 1, 10}

\* the frames handed to the analysis: rows under increasing labels
Frames(r) ==
    { f \in SeqsUpTo([label : Labels, geometry : AnalysisPolygons(r)], MaxBatch) :
        \A a, b \in 1..Len(f) : a < b => f[a].label < f[b].label }

\* the rasters of raster_paths
AnalysisRasters ==
    { Raster(GridH, GridW, 0, 0, Checker(GridH, GridW, 5, 3), [set |-> FALSE, val |-> 0]),
      Raster(GridH, GridW, 0, 0, Checker(GridH, GridW, 5, -1), [set |-> TRUE, val |-> -1]) }

\* if idx % 10 == 0: the row is announced
Announced(label) == label % 10 = 0

\* st.progress(value) accepts a float from 0.0 to 1.0 and raises otherwise
ProgressRejects(label, total) == Announced(label) /\ label > total

\* lines 83-88: the result list and the progress bar are created
StartAnalysis ==
    /\ apc = "idle" /\ buildings_gdf.status = "returned"
    /\ apc' = "loop" /\ seen' = 0 /\ building_results' = <<>>
    /\ shown' = <<[num |-> 0, den |-> 1]>>
    /\ UNCHANGED <<src, buildings_gdf, layer, outsideAnalyze>>

\* one iteration: the row is announced when its label is a multiple of ten,
\* its statistics are extracted and its result is appended
AnalyzeBuilding ==
    /\ apc = "loop" /\ seen < Len(buildings_gdf.rows)
    /\ LET building == buildings_gdf.rows[seen + 1]
           total_buildings == Len(buildings_gdf.rows)
           st == extract_raster_stats_for_polygon(src, building.geometry)
       IN  /\ ~ProgressRejects(building.label, total_buildings)
           /\ st.status = "returned"
           /\ shown' = IF Announced(building.label)
                       THEN Append(shown, [num |-> building.label, den |-> total_buildings])
                       ELSE shown
           /\ building_results' =
                 Append(building_results, [label |-> building.label, stats |-> st.result])
    /\ seen' = seen + 1
    /\ UNCHANGED <<src, buildings_gdf, layer, apc, outsideAnalyze>>

\* one iteration whose statistics raise: nothing catches the exception and
\* it leaves analyze_buildings
StatsRaise ==
    /\ apc = "loop" /\ seen < Len(buildings_gdf.rows)
    /\ LET building == buildings_gdf.rows[seen + 1]
           total_buildings == Len(buildings_gdf.rows)
           st == extract_raster_stats_for_polygon(src, building.geometry)
       IN  /\ ~ProgressRejects(building.label, total_buildings)
           /\ st.status # "returned"
           /\ shown' = IF Announced(building.label)
                       THEN Append(shown, [num |-> building.label, den |-> total_buildings])
                       ELSE shown
           /\ apc' = st.status
    /\ UNCHANGED <<src, buildings_gdf, layer, seen, building_results, outsideAnalyze>>

\* one iteration whose announcement is rejected by the progress bar: the
\* fraction idx / total_buildings is given to it and the exception leaves
\* analyze_buildings
ProgressRaises ==
    /\ apc = "loop" /\ seen < Len(buildings_gdf.rows)
    /\ LET building == buildings_gdf.rows[seen + 1]
           total_buildings == Len(buildings_gdf.rows)
       IN  /\ ProgressRejects(building.label, total_buildings)
           /\ shown' = Append(shown, [num |-> building.label, den |-> total_buildings])
    /\ apc' = "StreamlitAPIException"
    /\ UNCHANGED <<src, buildings_gdf, layer, seen, building_results, outsideAnalyze>>

\* lines 113-116: the bar is filled and the results are returned
FinishAnalysis ==
    /\ apc = "loop" /\ seen = Len(buildings_gdf.rows)
    /\ shown' = Append(shown, [num |-> 1, den |-> 1])
    /\ apc' = "done"
    /\ UNCHANGED <<src, buildings_gdf, layer, seen, building_results, outsideAnalyze>>

----------------------------------------------------------------------------
(* Specifications: one per operation, the other operations at rest *)

InitFlood ==
    /\ \/ wse_src \in WseGrids /\ dem_src = NoDem
       \/ /\ wse_src \in CheckerWse
          /\ \E d \in MatchingDems(wse_src) \cup MismatchedDems(wse_src) :
                dem_src = [present |-> TRUE, r |-> d]
    /\ flood = NoFlood
    /\ src = NoRaster
    /\ polygon = NoPolygon /\ stats = NoStats
    /\ points = <<>> /\ sampled = NoSample
    /\ line_geometry = NoLine /\ profile = NoProfile
    /\ pc = "idle" /\ quad_keys = <<>> /\ i = 0 /\ idx = 0 /\ combined_gdf = <<>>
    /\ warnings = <<>> /\ progress = <<>> /\ fetched = <<>>
    /\ target_crs = REQUIRED_CRS /\ layer = NoLayer /\ loaded = NoLoad
    /\ raster_files = NoFiles /\ vector_files = NoFiles /\ rpc = "idle" /\ pos = 0
    /\ current_file = 0 /\ reprojected_rasters = <<>> /\ reprojected_vectors = <<>>
    /\ temp_dir = <<>> /\ ops = <<>> /\ pass = 0 /\ previous = <<>>
    /\ session_state = <<>> /\ disk = {} /\ handed = {}
    /\ df = NoTable /\ formatted_df = NoTable
    /\ aoi_polygon = 0 /\ first_call = NoCall
    /\ checked = NoCheck
    /\ buildings_gdf = NoBuildings
    /\ raster_paths = <<>> /\ ppc = "idle" /\ coordinates = <<>> /\ results = NoResults
    /\ apc = "idle" /\ seen = 0 /\ building_results = <<>> /\ shown = <<>>

NextFlood == CreateFloodExtent

SpecFlood == InitFlood /\ [][NextFlood]_vars

InitStats ==
    /\ src \in StatGrids
    /\ polygon \in Polygons(src)
    /\ stats = NoStats
    /\ wse_src = NoRaster /\ dem_src = NoDem /\ flood = NoFlood
    /\ points = <<>> /\ sampled = NoSample
    /\ line_geometry = NoLine /\ profile = NoProfile
    /\ pc = "idle" /\ quad_keys = <<>> /\ i = 0 /\ idx = 0 /\ combined_gdf = <<>>
    /\ warnings = <<>> /\ progress = <<>> /\ fetched = <<>>
    /\ target_crs = REQUIRED_CRS /\ layer = NoLayer /\ loaded = NoLoad
    /\ raster_files = NoFiles /\ vector_files = NoFiles /\ rpc = "idle" /\ pos = 0
    /\ current_file = 0 /\ reprojected_rasters = <<>> /\ reprojected_vectors = <<>>
    /\ temp_dir = <<>> /\ ops = <<>> /\ pass = 0 /\ previous = <<>>
    /\ session_state = <<>> /\ disk = {} /\ handed = {}
    /\ df = NoTable /\ formatted_df = NoTable
    /\ aoi_polygon = 0 /\ first_call = NoCall
    /\ checked = NoCheck
    /\ buildings_gdf = NoBuildings
    /\ raster_paths = <<>> /\ ppc = "idle" /\ coordinates = <<>> /\ results = NoResults
    /\ apc = "idle" /\ seen = 0 /\ building_results = <<>> /\ shown = <<>>

NextStats == ExtractStats

SpecStats == InitStats /\ [][NextStats]_vars

InitSample ==
    /\ src \in CheckerWse \cup {ScenarioGrid}
    /\ points \in SeqsUpTo(SamplePoints(src), MaxPoints)
    /\ sampled = NoSample
    /\ wse_src = NoRaster /\ dem_src = NoDem /\ flood = NoFlood
    /\ polygon = NoPolygon /\ stats = NoStats
    /\ line_geometry = NoLine /\ profile = NoProfile
    /\ pc = "idle" /\ quad_keys = <<>> /\ i = 0 /\ idx = 0 /\ combined_gdf = <<>>
    /\ warnings = <<>> /\ progress = <<>> /\ fetched = <<>>
    /\ target_crs = REQUIRED_CRS /\ layer = NoLayer /\ loaded = NoLoad
    /\ raster_files = NoFiles /\ vector_files = NoFiles /\ rpc = "idle" /\ pos = 0
    /\ current_file = 0 /\ reprojected_rasters = <<>> /\ reprojected_vectors = <<>>
    /\ temp_dir = <<>> /\ ops = <<>> /\ pass = 0 /\ previous = <<>>
    /\ session_state = <<>> /\ disk = {} /\ handed = {}
    /\ df = NoTable /\ formatted_df = NoTable
    /\ aoi_polygon = 0 /\ first_call = NoCall
    /\ checked = NoCheck
    /\ buildings_gdf = NoBuildings
    /\ raster_paths = <<>> /\ ppc = "idle" /\ coordinates = <<>> /\ results = NoResults
    /\ apc = "idle" /\ seen = 0 /\ building_results = <<>> /\ shown = <<>>

NextSample == SampleRaster

SpecSample == InitSample /\ [][NextSample]_vars

InitProfile ==
    /\ src \in ProfileGrids
    /\ line_geometry \in Lines(src)
    /\ profile = NoProfile
    /\ wse_src = NoRaster /\ dem_src = NoDem /\ flood = NoFlood
    /\ polygon = NoPolygon /\ stats = NoStats
    /\ points = <<>> /\ sampled = NoSample
    /\ pc = "idle" /\ quad_keys = <<>> /\ i = 0 /\ idx = 0 /\ combined_gdf = <<>>
    /\ warnings = <<>> /\ progress = <<>> /\ fetched = <<>>
    /\ target_crs = REQUIRED_CRS /\ layer = NoLayer /\ loaded = NoLoad
    /\ raster_files = NoFiles /\ vector_files = NoFiles /\ rpc = "idle" /\ pos = 0
    /\ current_file = 0 /\ reprojected_rasters = <<>> /\ reprojected_vectors = <<>>
    /\ temp_dir = <<>> /\ ops = <<>> /\ pass = 0 /\ previous = <<>>
    /\ session_state = <<>> /\ disk = {} /\ handed = {}
    /\ df = NoTable /\ formatted_df = NoTable
    /\ aoi_polygon = 0 /\ first_call = NoCall
    /\ checked = NoCheck
    /\ buildings_gdf = NoBuildings
    /\ raster_paths = <<>> /\ ppc = "idle" /\ coordinates = <<>> /\ results = NoResults
    /\ apc = "idle" /\ seen = 0 /\ building_results = <<>> /\ shown = <<>>

NextProfile == ExtractProfile

SpecProfile == InitProfile /\ [][NextProfile]_vars

InitBuildings ==
    /\ pc = "idle" /\ quad_keys = <<>> /\ i = 0 /\ idx = 0 /\ combined_gdf = <<>>
    /\ warnings = <<>> /\ progress = <<>> /\ fetched = <<>>
    /\ target_crs = REQUIRED_CRS /\ layer = NoLayer /\ loaded = NoLoad
    /\ raster_files = NoFiles /\ vector_files = NoFiles /\ rpc = "idle" /\ pos = 0
    /\ current_file = 0 /\ reprojected_rasters = <<>> /\ reprojected_vectors = <<>>
    /\ temp_dir = <<>> /\ ops = <<>> /\ pass = 0 /\ previous = <<>>
    /\ session_state = <<>> /\ disk = {} /\ handed = {}
    /\ df = NoTable /\ formatted_df = NoTable
    /\ aoi_polygon \in 1..MaxTiles /\ first_call = NoCall
    /\ checked = NoCheck
    /\ buildings_gdf = NoBuildings
    /\ raster_paths = <<>> /\ ppc = "idle" /\ coordinates = <<>> /\ results = NoResults
    /\ apc = "idle" /\ seen = 0 /\ building_results = <<>> /\ shown = <<>>
    /\ wse_src = NoRaster /\ dem_src = NoDem /\ flood = NoFlood
    /\ src = NoRaster
    /\ polygon = NoPolygon /\ stats = NoStats
    /\ points = <<>> /\ sampled = NoSample
    /\ line_geometry = NoLine /\ profile = NoProfile

NextBuildings == Start \/ SkipTile \/ MergeTile \/ FetchFails \/ MergeFails \/ Finish

SpecBuildings == InitBuildings /\ [][NextBuildings]_vars

InitRepeat ==
    /\ pc = "idle" /\ quad_keys = <<>> /\ i = 0 /\ idx = 0 /\ combined_gdf = <<>>
    /\ warnings = <<>> /\ progress = <<>> /\ fetched = <<>>
    /\ target_crs = REQUIRED_CRS /\ layer = NoLayer /\ loaded = NoLoad
    /\ raster_files = NoFiles /\ vector_files = NoFiles /\ rpc = "idle" /\ pos = 0
    /\ current_file = 0 /\ reprojected_rasters = <<>> /\ reprojected_vectors = <<>>
    /\ temp_dir = <<>> /\ ops = <<>> /\ pass = 0 /\ previous = <<>>
    /\ session_state = <<>> /\ disk = {} /\ handed = {}
    /\ df = NoTable /\ formatted_df = NoTable
    /\ aoi_polygon \in 1..MaxRepeat /\ first_call = NoCall
    /\ checked = NoCheck
    /\ buildings_gdf = NoBuildings
    /\ raster_paths = <<>> /\ ppc = "idle" /\ coordinates = <<>> /\ results = NoResults
    /\ apc = "idle" /\ seen = 0 /\ building_results = <<>> /\ shown = <<>>
    /\ wse_src = NoRaster /\ dem_src = NoDem /\ flood = NoFlood
    /\ src = NoRaster
    /\ polygon = NoPolygon /\ stats = NoStats
    /\ points = <<>> /\ sampled = NoSample
    /\ line_geometry = NoLine /\ profile = NoProfile

NextRepeat ==
    Start \/ SkipTile \/ MergeTile \/ FetchFails \/ MergeFails \/ Finish \/ CallAgain

SpecRepeat == InitRepeat /\ [][NextRepeat]_vars

InitLoad ==
    /\ target_crs \in TargetCRS
    /\ layer \in Layers
    /\ loaded = NoLoad
    /\ raster_files = NoFiles /\ vector_files = NoFiles /\ rpc = "idle" /\ pos = 0
    /\ current_file = 0 /\ reprojected_rasters = <<>> /\ reprojected_vectors = <<>>
    /\ temp_dir = <<>> /\ ops = <<>> /\ pass = 0 /\ previous = <<>>
    /\ session_state = <<>> /\ disk = {} /\ handed = {}
    /\ df = NoTable /\ formatted_df = NoTable
    /\ aoi_polygon = 0 /\ first_call = NoCall
    /\ checked = NoCheck
    /\ buildings_gdf = NoBuildings
    /\ raster_paths = <<>> /\ ppc = "idle" /\ coordinates = <<>> /\ results = NoResults
    /\ apc = "idle" /\ seen = 0 /\ building_results = <<>> /\ shown = <<>>
    /\ wse_src = NoRaster /\ dem_src = NoDem /\ flood = NoFlood
    /\ src = NoRaster
    /\ polygon = NoPolygon /\ stats = NoStats
    /\ points = <<>> /\ sampled = NoSample
    /\ line_geometry = NoLine /\ profile = NoProfile
    /\ pc = "idle" /\ quad_keys = <<>> /\ i = 0 /\ idx = 0 /\ combined_gdf = <<>>
    /\ warnings = <<>> /\ progress = <<>> /\ fetched = <<>>

NextLoad == LoadShapefile

SpecLoad == InitLoad /\ [][NextLoad]_vars

InitReproject ==
    /\ target_crs \in TargetCRS
    /\ raster_files \in [Range(RasterNames) -> RasterUploads]
    /\ vector_files \in [Range(VectorNames) -> VectorUploads]
    /\ rpc = "idle" /\ pos = 0 /\ current_file = 0
    /\ reprojected_rasters = NoFiles /\ reprojected_vectors = NoFiles
    /\ temp_dir = NoFiles /\ ops = <<>> /\ pass = 0 /\ previous = NoFiles
    /\ session_state = <<>> /\ disk = {} /\ handed = {}
    /\ df = NoTable /\ formatted_df = NoTable
    /\ aoi_polygon = 0 /\ first_call = NoCall
    /\ checked = NoCheck
    /\ buildings_gdf = NoBuildings
    /\ raster_paths = <<>> /\ ppc = "idle" /\ coordinates = <<>> /\ results = NoResults
    /\ apc = "idle" /\ seen = 0 /\ building_results = <<>> /\ shown = <<>>
    /\ layer = NoLayer /\ loaded = NoLoad
    /\ wse_src = NoRaster /\ dem_src = NoDem /\ flood = NoFlood
    /\ src = NoRaster
    /\ polygon = NoPolygon /\ stats = NoStats
    /\ points = <<>> /\ sampled = NoSample
    /\ line_geometry = NoLine /\ profile = NoProfile
    /\ pc = "idle" /\ quad_keys = <<>> /\ i = 0 /\ idx = 0 /\ combined_gdf = <<>>
    /\ warnings = <<>> /\ progress = <<>> /\ fetched = <<>>

NextReproject ==
    \/ StartReproject \/ SkipAbsent \/ CopyRaster \/ ReprojectRaster \/ RasterRaises
    \/ ReprojectVector \/ VectorRaises \/ FinishReproject \/ Reupload

SpecReproject == InitReproject /\ [][NextReproject]_vars

InitExisting ==
    /\ wse_src \in CheckerWse /\ dem_src = NoDem /\ flood = NoFlood
    /\ target_crs = REQUIRED_CRS
    /\ layer \in BuildingLayers
    /\ loaded = NoLoad
    /\ buildings_gdf = NoBuildings
    /\ raster_paths = <<>> /\ ppc = "idle" /\ coordinates = <<>> /\ results = NoResults
    /\ apc = "idle" /\ seen = 0 /\ building_results = <<>> /\ shown = <<>>
    /\ raster_files = NoFiles /\ vector_files = NoFiles /\ rpc = "idle" /\ pos = 0
    /\ current_file = 0 /\ reprojected_rasters = <<>> /\ reprojected_vectors = <<>>
    /\ temp_dir = <<>> /\ ops = <<>> /\ pass = 0 /\ previous = <<>>
    /\ session_state = <<>> /\ disk = {} /\ handed = {}
    /\ df = NoTable /\ formatted_df = NoTable
    /\ aoi_polygon = 0 /\ first_call = NoCall
    /\ checked = NoCheck
    /\ src = NoRaster
    /\ polygon = NoPolygon /\ stats = NoStats
    /\ points = <<>> /\ sampled = NoSample
    /\ line_geometry = NoLine /\ profile = NoProfile
    /\ pc = "idle" /\ quad_keys = <<>> /\ i = 0 /\ idx = 0 /\ combined_gdf = <<>>
    /\ warnings = <<>> /\ progress = <<>> /\ fetched = <<>>

NextExisting == RunExistingLayer

SpecExisting == InitExisting /\ [][NextExisting]_vars

InitPoints ==
    /\ layer \in PointLayers
    /\ raster_paths \in RasterPaths
    /\ ppc = "idle" /\ coordinates = <<>> /\ results = NoResults
    /\ src = NoRaster /\ buildings_gdf = NoBuildings
    /\ apc = "idle" /\ seen = 0 /\ building_results = <<>> /\ shown = <<>>
    /\ wse_src = NoRaster /\ dem_src = NoDem /\ flood = NoFlood
    /\ polygon = NoPolygon /\ stats = NoStats
    /\ points = <<>> /\ sampled = NoSample
    /\ line_geometry = NoLine /\ profile = NoProfile
    /\ pc = "idle" /\ quad_keys = <<>> /\ i = 0 /\ idx = 0 /\ combined_gdf = <<>>
    /\ warnings = <<>> /\ progress = <<>> /\ fetched = <<>>
    /\ target_crs = REQUIRED_CRS /\ loaded = NoLoad
    /\ raster_files = NoFiles /\ vector_files = NoFiles /\ rpc = "idle" /\ pos = 0
    /\ current_file = 0 /\ reprojected_rasters = <<>> /\ reprojected_vectors = <<>>
    /\ temp_dir = <<>> /\ ops = <<>> /\ pass = 0 /\ previous = <<>>
    /\ session_state = <<>> /\ disk = {} /\ handed = {}
    /\ df = NoTable /\ formatted_df = NoTable
    /\ aoi_polygon = 0 /\ first_call = NoCall
    /\ checked = NoCheck

NextPoints == PointsRaise \/ ExtractCoordinates \/ SamplePath \/ ReturnTable

SpecPoints == InitPoints /\ [][NextPoints]_vars

InitAnalyze ==
    /\ src \in AnalysisRasters
    /\ \E f \in Frames(src) : buildings_gdf = [status |-> "returned", rows |-> f]
    /\ apc = "idle" /\ seen = 0 /\ building_results = <<>> /\ shown = <<>>
    /\ layer = NoLayer
    /\ raster_paths = <<>> /\ ppc = "idle" /\ coordinates = <<>> /\ results = NoResults
    /\ wse_src = NoRaster /\ dem_src = NoDem /\ flood = NoFlood
    /\ polygon = NoPolygon /\ stats = NoStats
    /\ points = <<>> /\ sampled = NoSample
    /\ line_geometry = NoLine /\ profile = NoProfile
    /\ pc = "idle" /\ quad_keys = <<>> /\ i = 0 /\ idx = 0 /\ combined_gdf = <<>>
    /\ warnings = <<>> /\ progress = <<>> /\ fetched = <<>>
    /\ target_crs = REQUIRED_CRS /\ loaded = NoLoad
    /\ raster_files = NoFiles /\ vector_files = NoFiles /\ rpc = "idle" /\ pos = 0
    /\ current_file = 0 /\ reprojected_rasters = <<>> /\ reprojected_vectors = <<>>
    /\ temp_dir = <<>> /\ ops = <<>> /\ pass = 0 /\ previous = <<>>
    /\ session_state = <<>> /\ disk = {} /\ handed = {}
    /\ df = NoTable /\ formatted_df = NoTable
    /\ aoi_polygon = 0 /\ first_call = NoCall
    /\ checked = NoCheck

NextAnalyze ==
    StartAnalysis \/ AnalyzeBuilding \/ StatsRaise \/ ProgressRaises \/ FinishAnalysis

SpecAnalyze == InitAnalyze /\ [][NextAnalyze]_vars

InitCheck ==
    /\ target_crs \in TargetCRS
    /\ raster_files \in [Range(RasterNames) -> RasterUploads]
    /\ vector_files \in [Range(VectorNames) -> VectorUploads]
    /\ checked = NoCheck
    /\ rpc = "idle" /\ pos = 0 /\ current_file = 0
    /\ reprojected_rasters = <<>> /\ reprojected_vectors = <<>>
    /\ temp_dir = <<>> /\ ops = <<>> /\ pass = 0 /\ previous = <<>>
    /\ session_state = <<>> /\ disk = {} /\ handed = {}
    /\ df = NoTable /\ formatted_df = NoTable
    /\ aoi_polygon = 0 /\ first_call = NoCall
    /\ buildings_gdf = NoBuildings
    /\ raster_paths = <<>> /\ ppc = "idle" /\ coordinates = <<>> /\ results = NoResults
    /\ apc = "idle" /\ seen = 0 /\ building_results = <<>> /\ shown = <<>>
    /\ layer = NoLayer /\ loaded = NoLoad
    /\ wse_src = NoRaster /\ dem_src = NoDem /\ flood = NoFlood
    /\ src = NoRaster
    /\ polygon = NoPolygon /\ stats = NoStats
    /\ points = <<>> /\ sampled = NoSample
    /\ line_geometry = NoLine /\ profile = NoProfile
    /\ pc = "idle" /\ quad_keys = <<>> /\ i = 0 /\ idx = 0 /\ combined_gdf = <<>>
    /\ warnings = <<>> /\ progress = <<>> /\ fetched = <<>>

NextCheck == CheckAllInputs

SpecCheck == InitCheck /\ [][NextCheck]_vars

InitSession ==
    /\ target_crs = REQUIRED_CRS
    /\ raster_files \in [Range(RasterNames) -> RasterUploads]
    /\ vector_files \in [Range(VectorNames) -> VectorUploads]
    /\ checked = NoCheck
    /\ rpc = "idle" /\ pos = 0 /\ current_file = 0
    /\ reprojected_rasters = <<>> /\ reprojected_vectors = <<>>
    /\ temp_dir = <<>> /\ ops = <<>> /\ pass = 0 /\ previous = <<>>
    /\ session_state = <<>> /\ disk = {} /\ handed = {}
    /\ df = NoTable /\ formatted_df = NoTable
    /\ aoi_polygon = 0 /\ first_call = NoCall
    /\ buildings_gdf = NoBuildings
    /\ raster_paths = <<>> /\ ppc = "idle" /\ coordinates = <<>> /\ results = NoResults
    /\ apc = "idle" /\ seen = 0 /\ building_results = <<>> /\ shown = <<>>
    /\ layer = NoLayer /\ loaded = NoLoad
    /\ wse_src = NoRaster /\ dem_src = NoDem /\ flood = NoFlood
    /\ src = NoRaster
    /\ polygon = NoPolygon /\ stats = NoStats
    /\ points = <<>> /\ sampled = NoSample
    /\ line_geometry = NoLine /\ profile = NoProfile
    /\ pc = "idle" /\ quad_keys = <<>> /\ i = 0 /\ idx = 0 /\ combined_gdf = <<>>
    /\ warnings = <<>> /\ progress = <<>> /\ fetched = <<>>

NextSession ==
    \/ ClickAutoReproject \/ SkipAbsent \/ CopyRaster \/ ReprojectRaster \/ ReprojectVector
    \/ VectorRaises \/ FinishReproject \/ StoreReprojected \/ CleanupTempFiles \/ RunAnalysis

SpecSession == InitSession /\ [][NextSession]_vars

InitFormat ==
    /\ target_crs = REQUIRED_CRS
    /\ raster_files = NoFiles
    /\ vector_files = NoFiles
    /\ checked = NoCheck
    /\ rpc = "idle" /\ pos = 0 /\ current_file = 0
    /\ reprojected_rasters = <<>> /\ reprojected_vectors = <<>>
    /\ temp_dir = <<>> /\ ops = <<>> /\ pass = 0 /\ previous = <<>>
    /\ session_state = <<>> /\ disk = {} /\ handed = {}
    /\ df \in Tables /\ formatted_df = NoTable
    /\ \A k \in 1..Len(df.rows) :
          /\ "dem" \notin df.columns => df.rows[k].dem = NaN
          /\ "wse" \notin df.columns => df.rows[k].wse = NaN
    /\ aoi_polygon = 0 /\ first_call = NoCall
    /\ buildings_gdf = NoBuildings
    /\ raster_paths = <<>> /\ ppc = "idle" /\ coordinates = <<>> /\ results = NoResults
    /\ apc = "idle" /\ seen = 0 /\ building_results = <<>> /\ shown = <<>>
    /\ layer = NoLayer /\ loaded = NoLoad
    /\ wse_src = NoRaster /\ dem_src = NoDem /\ flood = NoFlood
    /\ src = NoRaster
    /\ polygon = NoPolygon /\ stats = NoStats
    /\ points = <<>> /\ sampled = NoSample
    /\ line_geometry = NoLine /\ profile = NoProfile
    /\ pc = "idle" /\ quad_keys = <<>> /\ i = 0 /\ idx = 0 /\ combined_gdf = <<>>
    /\ warnings = <<>> /\ progress = <<>> /\ fetched = <<>>

NextFormat == FormatResults

SpecFormat == InitFormat /\ [][NextFormat]_vars

----------------------------------------------------------------------------
(* Claims about create_flood_extent_polygon *)

FloodCalled == flood.status # "idle"

\* C3: called with a terrain raster whose shape or bounds differ from the
\* water-surface raster, create_flood_extent_polygon raises the dimensions
\* ValueError before the terrain data is read and before any flood mask is
\* computed, and returns no polygon.
C3_MismatchRaisesBeforeMasking ==
    (FloodCalled /\ dem_src.present
        /\ (Shape(wse_src) # Shape(dem_src.r) \/ Bounds(wse_src) # Bounds(dem_src.r)))
    => /\ flood.status = "ValueError"
       /\ flood.msg = "DEM and WSE rasters must have same dimensions and extent"
       /\ ~flood.dem_read
       /\ ~flood.mask_done
       /\ flood.gdf = {}

\* a terrain raster of the same shape but shifted bounds was rejected
C3_Witness ==
    /\ dem_src.present
    /\ Shape(wse_src) = Shape(dem_src.r)
    /\ Bounds(wse_src) # Bounds(dem_src.r)
    /\ flood.status = "ValueError"
    /\ ~flood.dem_read

\* C4: create_flood_extent_polygon raises the no-flood-extent ValueError
\* whenever the flood mask has no true cell, returns a polygon whenever the
\* mask has at least one true cell, and never returns an empty geometry.
C4_EmptyMaskRaises ==
    (FloodCalled /\ flood.mask_done)
    => /\ flood.flood_mask = {}
            => /\ flood.status = "ValueError"
               /\ flood.msg = "No flood extent found in WSE raster"
               /\ flood.gdf = {}
       /\ flood.flood_mask # {}
            => /\ flood.status = "returned"
               /\ flood.gdf # {}
       /\ \A f \in flood.gdf : f.geometry # {}

\* a raster with a sentinel and no flooded cell raised the domain error
C4_Witness ==
    /\ flood.mask_done
    /\ flood.flood_mask = {}
    /\ wse_src.has_nodata
    /\ flood.status = "ValueError"

\* the cells that are flooded when there is no terrain raster
FloodedNoDem(w) ==
    { c \in RasterCells(w) : w.data[c] > 0 /\ (w.has_nodata => w.data[c] # w.nodata) }

\* C5: with no terrain raster the returned extent is a single dissolved
\* feature covering exactly the cells whose value is > 0 and, when the raster
\* has a sentinel, differs from it; the call raises exactly when there is no
\* such cell; for the 4x4 scenario grid the extent is the top-left 2x2 block.
C5_ExtentIsFloodedCells ==
    (FloodCalled /\ ~dem_src.present)
    => /\ flood.status = "returned" <=> FloodedNoDem(wse_src) # {}
       /\ flood.status = "returned"
            => flood.gdf = { [flooded |-> 1, geometry |-> FloodedNoDem(wse_src)] }
       /\ wse_src = ScenarioGrid
            => flood.gdf = { [flooded |-> 1,
                              geometry |-> { <<1, 1>>, <<1, 2>>, <<2, 1>>, <<2, 2>> }] }

\* the scenario grid was turned into its extent
C5_Witness ==
    /\ wse_src = ScenarioGrid
    /\ ~dem_src.present
    /\ flood.status = "returned"
    /\ Cardinality(flood.gdf) = 1

\* C6: with a terrain raster of matching shape and bounds, a cell is in the
\* flood mask iff wse > dem there, the wse value is not the wse sentinel and
\* the dem value is not the dem sentinel; a cell where either raster is
\* nodata is never flooded.
C6_MaskWithTerrain ==
    (FloodCalled /\ dem_src.present
        /\ Shape(wse_src) = Shape(dem_src.r) /\ Bounds(wse_src) = Bounds(dem_src.r))
    => /\ flood.mask_done
       /\ \A c \in RasterCells(wse_src) :
            /\ c \in flood.flood_mask
                 <=> /\ wse_src.data[c] > dem_src.r.data[c]
                     /\ wse_src.has_nodata => wse_src.data[c] # wse_src.nodata
                     /\ dem_src.r.has_nodata => dem_src.r.data[c] # dem_src.r.nodata
            /\ ( \/ wse_src.has_nodata /\ wse_src.data[c] = wse_src.nodata
                 \/ dem_src.r.has_nodata /\ dem_src.r.data[c] = dem_src.r.nodata )
                 => \A f \in flood.gdf : c \notin f.geometry
       /\ flood.flood_mask \subseteq RasterCells(wse_src)

\* a terrain-nodata cell lying below the water surface was left out of a
\* mask that kept another cell
C6_Witness ==
    /\ dem_src.present
    /\ flood.status = "returned"
    /\ \E c \in RasterCells(wse_src) :
          /\ dem_src.r.has_nodata
          /\ dem_src.r.data[c] = dem_src.r.nodata
          /\ wse_src.data[c] > dem_src.r.data[c]
          /\ c \notin flood.flood_mask

----------------------------------------------------------------------------
(* Claims about extract_raster_stats_for_polygon *)

StatsCalled == stats.status # "idle"

\* the pixels of the polygon that hold valid data
ValidInside(r, poly) == { c \in poly.inside : NotNodata(r, c) }

\* C7: for every polygon wholly outside the raster's valid-data region,
\* extract_raster_stats_for_polygon returns mean, min, max and std all
\* undefined (NaN); it returns zero for none of them and raises no exception.
C7_OutsideValidDataIsUndefined ==
    (StatsCalled /\ ValidInside(src, polygon) = {})
    => /\ stats.status = "returned"
       /\ stats.result = Undefined

\* C8: the values over which extract_raster_stats_for_polygon computes its
\* statistics are exactly the values of the pixels inside the polygon that
\* are not nodata; no pixel of the cropped window outside the polygon
\* contributes its own value or a fill value.
C8_StatsOverPolygonPixelsOnly ==
    stats.status = "returned"
    => /\ Len(stats.valid_data) = Cardinality(ValidInside(src, polygon))
       /\ \A v \in StatVals \cup {0} :
            Cardinality({ k \in 1..Len(stats.valid_data) : stats.valid_data[k] = v })
                = Cardinality({ c \in ValidInside(src, polygon) : src.data[c] = v })

----------------------------------------------------------------------------
(* Claims about sample_raster_at_points *)

\* the pixel c of r contains the point pt
PixelContains(r, c, pt) ==
    /\ r.x0 + (c[2] - 1) * r.px <= pt[1] /\ pt[1] < r.x0 + c[2] * r.px
    /\ r.y0 - (c[1] - 1) * r.px >= pt[2] /\ pt[2] > r.y0 - c[1] * r.px

\* C10: sample_raster_at_points returns one result per input coordinate, in
\* input order; the result is the value of the pixel containing the
\* coordinate, or missing (NaN) exactly when that value equals the raster's
\* nodata sentinel.  On the 4x4 scenario grid the centre of the top-left cell
\* samples to 5 and the centre of the bottom-right cell to missing.
C10_SampleIsPixelValueOrMissing ==
    sampled.status = "returned"
    => /\ Len(sampled.values) = Len(points)
       /\ \A k \in 1..Len(points) : \A c \in RasterCells(src) :
            PixelContains(src, c, points[k])
            => /\ sampled.values[k].nan <=> (src.has_nodata /\ src.data[c] = src.nodata)
               /\ ~sampled.values[k].nan => sampled.values[k] = Float(src.data[c], 1)
       /\ src = ScenarioGrid
            => \A k \in 1..Len(points) :
                 /\ points[k] = <<CentreX(src, <<1, 1>>), CentreY(src, <<1, 1>>)>>
                      => sampled.values[k] = Float(5, 1)
                 /\ points[k] = <<CentreX(src, <<4, 4>>), CentreY(src, <<4, 4>>)>>
                      => sampled.values[k] = NaN

\* the scenario grid was sampled at the centre of its bottom-right cell and
\* then at the centre of its top-left cell
C10_Witness ==
    /\ src = ScenarioGrid
    /\ sampled.status = "returned"
    /\ points = << <<CentreX(src, <<4, 4>>), CentreY(src, <<4, 4>>)>>,
                   <<CentreX(src, <<1, 1>>), CentreY(src, <<1, 1>>)>> >>
    /\ sampled.values = <<NaN, Float(5, 1)>>

\* the point lies off the grid of r
OutsideExtent(r, pt) == \A c \in RasterCells(r) : ~PixelContains(r, c, pt)

\* C11: for every raster, with or without a nodata sentinel, a point outside
\* the raster's extent samples to the missing value, never to a number and
\* never to an error, and the other points of the call are still sampled.
C11_OutsideExtentIsMissing ==
    sampled.status # "idle"
    => /\ sampled.status = "returned"
       /\ Len(sampled.values) = Len(points)
       /\ \A k \in 1..Len(points) :
            OutsideExtent(src, points[k]) => sampled.values[k] = NaN

----------------------------------------------------------------------------
(* Claims about extract_elevation_profile *)

\* C9: for every line, a zero-length and a very long one included,
\* extract_elevation_profile returns a distance list and an elevation list
\* of the same length N, 100 <= N <= 1000, N = clamp(floor(length * 111000),
\* 100, 1000), and the distances are non-decreasing from first to last.
C9_ProfileSampleCount ==
    profile.status = "returned"
    => LET N == Len(profile.dist_num)
           metres == (line_geometry.length * 111000) \div 1000000
       IN  /\ Len(profile.elevations) = N
           /\ 100 <= N /\ N <= 1000
           /\ N = (IF metres < 100 THEN 100 ELSE IF metres > 1000 THEN 1000 ELSE metres)
           /\ profile.dist_den > 0
           /\ \A k \in 1..(N - 1) : profile.dist_num[k] <= profile.dist_num[k + 1]

\* a zero-length line was given its 100 samples
C9_Witness ==
    /\ profile.status = "returned"
    /\ line_geometry.length = 0
    /\ Len(profile.dist_num) = 100
    /\ Len(profile.elevations) = 100

\* the end of the line
LineEnd ==
    IF line_geometry.dir = "E"
    THEN <<line_geometry.x + line_geometry.length, line_geometry.y>>
    ELSE <<line_geometry.x, line_geometry.y - line_geometry.length>>

\* C21: the samples are taken at evenly spaced positions from the start of
\* the line to its end: the first at the start with distance 0, the last at
\* the end with distance length * 111000, consecutive samples one same step
\* apart in position and in distance.
C21_SamplesEvenlySpaced ==
    profile.status = "returned"
    => LET N == Len(profile.sample_points)
           pt == profile.sample_points
           d == profile.dist_num
       IN  /\ Len(d) = N
           /\ \A k \in 1..N : pt[k].den = N - 1
           /\ pt[1].xn = line_geometry.x * (N - 1) /\ pt[1].yn = line_geometry.y * (N - 1)
           /\ pt[N].xn = LineEnd[1] * (N - 1) /\ pt[N].yn = LineEnd[2] * (N - 1)
           /\ \A k \in 1..(N - 1) :
                 /\ pt[k + 1].xn - pt[k].xn = pt[2].xn - pt[1].xn
                 /\ pt[k + 1].yn - pt[k].yn = pt[2].yn - pt[1].yn
                 /\ d[k + 1] - d[k] = d[2] - d[1]
           /\ d[1] = 0
           /\ profile.dist_den = (N - 1) * 1000
           /\ d[N] = (N - 1) * (line_geometry.length * 111)

\* a line of 4500 millionths of a degree has been sampled at its 499 points
C21_Witness ==
    /\ profile.status = "returned"
    /\ line_geometry.length = 4500
    /\ Len(profile.sample_points) = 499
    /\ profile.sample_points[499].xn # profile.sample_points[1].xn

----------------------------------------------------------------------------
(* Claims about download_building_footprints *)

\* C1: whatever the tiles of the call resolve to (features, no feature, a
\* skipped tile, a failing tile), no two features of the merged result carry
\* the same building_id.
C1_BuildingIdsUnique ==
    \A a, b \in 1..Len(combined_gdf) :
        a # b => combined_gdf[a].building_id # combined_gdf[b].building_id

\* a call returned features of two tiles, another of its tiles having
\* contributed none
C1_Witness ==
    /\ pc = "done"
    /\ \E a, b \in 1..Len(combined_gdf) : combined_gdf[a].tile # combined_gdf[b].tile
    /\ \E k \in 1..Len(fetched) :
          \A a \in 1..Len(combined_gdf) : combined_gdf[a].tile # fetched[k].key

\* the features tile k of the log gave to the result
Contribution(k) ==
    IF fetched[k].outcome = "merged"
    THEN { [tile |-> fetched[k].key, feature |-> f] :
             f \in { g \in 1..Len(fetched[k].feats) : fetched[k].feats[g] } }
    ELSE {}

Failed(k) == fetched[k].outcome \in {"fetch_error", "merge_error"}

\* C2: when fetching or parsing a tile raises, the error is caught and
\* reported as a warning, the tile adds no feature to the result, every
\* later tile is still processed, and the features collected from the other
\* tiles are all present in the returned result.
C2_TileFailureIsSkipped ==
    /\ pc \in {"idle", "loop", "done"}
    /\ Len(fetched) = i
    /\ \A k \in 1..Len(fetched) :
          /\ Failed(k)
               => /\ \E m \in 1..Len(warnings) : warnings[m] = fetched[k].key
                  /\ \A a \in 1..Len(combined_gdf) : combined_gdf[a].tile # fetched[k].key
          /\ \A f \in Contribution(k) :
                \E a \in 1..Len(combined_gdf) :
                    combined_gdf[a].tile = f.tile /\ combined_gdf[a].feature = f.feature
    /\ pc = "done"
         => /\ Len(fetched) = Len(quad_keys)
            /\ \A k \in 1..Len(quad_keys) : fetched[k].key = quad_keys[k]

\* a call returned the features of the tiles before and after a tile whose
\* fetch failed
C2_Witness ==
    /\ pc = "done"
    /\ \E k \in 2..(Len(fetched) - 1) :
          /\ fetched[k].outcome = "fetch_error"
          /\ Contribution(k - 1) # {}
          /\ Contribution(k + 1) # {}
    /\ Len(warnings) = 1
    /\ Len(combined_gdf) = 2

\* the features of tile k of the log that were numbered
Numbered(k) ==
    IF fetched[k].outcome \in {"merged", "merge_error"}
    THEN Cardinality({ g \in 1..Len(fetched[k].feats) : fetched[k].feats[g] })
    ELSE 0

RECURSIVE NumberedUpTo(_)
NumberedUpTo(k) == IF k = 0 THEN 0 ELSE NumberedUpTo(k - 1) + Numbered(k)

\* C17: every distinct tile key of the bounding box is handled exactly once
\* in a call, and a tile contributes only when the manifest has exactly one
\* row for its key: with no row or with several rows the tile is skipped,
\* nothing is fetched, and neither the result nor the identifier counter
\* changes.
C17_TileHandledOnceWhenSingleRow ==
    /\ \A a, b \in 1..Len(fetched) : a # b => fetched[a].key # fetched[b].key
    /\ \A k \in 1..Len(fetched) :
          /\ fetched[k].key = quad_keys[k]
          /\ fetched[k].rows # 1
               => /\ fetched[k].outcome = "skipped"
                  /\ fetched[k].feats = <<>>
                  /\ \A a \in 1..Len(combined_gdf) : combined_gdf[a].tile # fetched[k].key
                  /\ \A m \in 1..Len(warnings) : warnings[m] # fetched[k].key
          /\ fetched[k].outcome = "skipped" => fetched[k].rows # 1
    /\ idx = NumberedUpTo(Len(fetched))
    /\ pc = "done" => { fetched[k].key : k \in 1..Len(fetched) } = Range(quad_keys)

\* a call handled a tile without row, a tile with two rows and a tile with
\* one row, and returned the features of the last alone
C17_Witness ==
    /\ pc = "done"
    /\ \E a, b, c \in 1..Len(fetched) :
          /\ fetched[a].rows = 0 /\ fetched[b].rows = 2
          /\ fetched[c].rows = 1 /\ Contribution(c) # {}
    /\ Len(combined_gdf) = 1 /\ idx = 1

\* C18: one progress notification follows the processing of each tile; every
\* fraction reported lies in [0,1], the fractions of a call never decrease,
\* and the last one is 1.0.
C18_ProgressAfterEachTile ==
    /\ \A k \in 1..Len(progress) :
          /\ progress[k].den > 0
          /\ 0 <= progress[k].num /\ progress[k].num <= progress[k].den
    /\ \A k \in 1..(Len(progress) - 1) :
          progress[k].num * progress[k + 1].den <= progress[k + 1].num * progress[k].den
    /\ \A t \in 1..Len(quad_keys) :
          LET after == { k \in 1..Len(progress) : progress[k].handled = t }
          IN  /\ Cardinality(after) <= 1
              /\ (t < i \/ pc = "done") => Cardinality(after) = 1
    /\ pc = "done"
         => /\ progress[Len(progress)].num = progress[Len(progress)].den
            /\ Len(progress) = Len(quad_keys) + 2

\* a call over several tiles has returned
C18_Witness ==
    /\ pc = "done"
    /\ Len(quad_keys) = MaxTiles
    /\ Len(progress) = MaxTiles + 2

----------------------------------------------------------------------------
(* Claims about load_shapefile *)

\* C12: a layer that declares no CRS always makes load_shapefile raise and is
\* never returned; every layer it returns has a CRS whose string is the target.
C12_LoadedLayerIsInTarget ==
    loaded.status # "idle"
    => /\ layer.crs.none => loaded.status = "ValueError"
       /\ loaded.status = "returned"
            => /\ ~layer.crs.none
               /\ ~loaded.gdf.crs.none
               /\ to_string(loaded.gdf.crs) = target_crs

\* a layer declared in another system has been loaded and returned
C12_Witness ==
    /\ loaded.status = "returned"
    /\ to_string(layer.crs) # target_crs
    /\ Len(layer.features) > 0

----------------------------------------------------------------------------
(* Claims about reproject_all_files *)

\* the names a dictionary of the call in progress holds; between two calls
\* the dictionaries of the earlier call say nothing about the new uploads
Written(d) == IF rpc = "idle" THEN {} ELSE DOMAIN d

WrittenLayers == Written(reprojected_vectors)

\* C13: in reproject_all_files a layer without CRS is written with the target
\* CRS and its coordinates unchanged, a layer declared in another CRS is
\* written with its geometries transformed to the target, a layer already in
\* the target is written unchanged; the written layer declares the target in
\* all three cases.
C13_LayerNormalisedToTarget ==
    \A n \in WrittenLayers :
        LET in == vector_files[n].gdf
            out == temp_dir[reprojected_vectors[n]].gdf
            to == from_user_input(target_crs)
        IN  /\ ~out.crs.none /\ to_string(out.crs) = target_crs
            /\ in.crs.none => out.features = in.features
            /\ (~in.crs.none /\ to_string(in.crs) = target_crs) => out = in
            /\ (~in.crs.none /\ to_string(in.crs) # target_crs)
                 => /\ Len(out.features) = Len(in.features)
                    /\ \A k \in 1..Len(in.features) :
                         /\ out.features[k].type = in.features[k].type
                         /\ \A v \in 1..Len(in.features[k].coords) :
                              out.features[k].coords[v]
                                = Transform(in.crs, to, in.features[k].coords[v])
                    /\ Geographic(in.crs) # Geographic(to) => out.features # in.features

\* one call has written a layer of each kind: without CRS and from another CRS
C13_Witness ==
    /\ rpc = "done" /\ pass = 1
    /\ "cross_sections" \in WrittenLayers /\ vector_files["cross_sections"].gdf.crs.none
    /\ "points" \in WrittenLayers
    /\ ~vector_files["points"].gdf.crs.none
    /\ Geographic(vector_files["points"].gdf.crs) # Geographic(from_user_input(target_crs))

\* the operations invoked on the file of a name in this call
OpsOn(n) == { ops[k].op : k \in { j \in 1..Len(ops) : ops[j].name = n } }

\* C14: a raster whose CRS string already equals the target is written
\* pixel-for-pixel identical to the input: the file is copied and
\* reproject_raster is not invoked on it; normalising the written files again
\* changes nothing.
C14_RasterInTargetIsCopied ==
    \A n \in Written(reprojected_rasters) :
        LET in == raster_files[n]
            out == temp_dir[reprojected_rasters[n]]
        IN  (~in.crs.none /\ to_string(in.crs) = target_crs)
            => /\ out = in
               /\ OpsOn(n) = {"copy2"}
               /\ pass > 1 => out = previous[reprojected_rasters[n]]

\* the files written by one call have been normalised a second time
C14_Witness ==
    /\ rpc = "done" /\ pass = 2
    /\ DOMAIN reprojected_rasters = Range(RasterNames)
    /\ OpsOn("dem") = {"copy2"}

\* the files that can be normalised: present, and for a raster with a CRS
Normalisable ==
    { n \in Range(RasterNames) : raster_files[n].present /\ ~raster_files[n].crs.none }
    \cup { n \in Range(VectorNames) : vector_files[n].present /\ vector_files[n].readable }

\* C15: when the normalisation of one raster fails (it has no readable CRS),
\* only that file is skipped: the call still returns, and the paths of all
\* the other rasters and layers are in what it returns.
C15_FailedRasterIsSkipped ==
    /\ ~(rpc = "raised" /\ InRasters)
    /\ rpc = "done"
         => Normalisable = DOMAIN reprojected_rasters \cup DOMAIN reprojected_vectors

----------------------------------------------------------------------------
(* Claims about run_building_analysis *)

\* a footprint and the extent share no point
Disjoint(geom) ==
    \A c \in FirstGeometry(flood.gdf) :
        \/ Box(geom).maxx < CellBox(wse_src, c).minx
        \/ Box(geom).minx > CellBox(wse_src, c).maxx
        \/ Box(geom).maxy < CellBox(wse_src, c).miny
        \/ Box(geom).miny > CellBox(wse_src, c).maxy

\* a footprint that lies on the rim of the extent and nowhere inside a cell
Touches(geom) ==
    /\ ~Disjoint(geom)
    /\ \A c \in FirstGeometry(flood.gdf) :
          \/ Box(geom).maxx <= CellBox(wse_src, c).minx
          \/ Box(geom).minx >= CellBox(wse_src, c).maxx
          \/ Box(geom).maxy <= CellBox(wse_src, c).miny
          \/ Box(geom).miny >= CellBox(wse_src, c).maxy

\* C16: in the existing-layer mode the buildings handed to the analysis are
\* exactly the features of the supplied layer that are not disjoint from the
\* flood extent, kept in order under their own labels: a feature that partly
\* overlaps or only touches the extent is kept, a disjoint one is dropped,
\* and no feature is added or altered.
C16_ExistingLayerFilteredByIntersection ==
    buildings_gdf.status = "returned"
    => LET rows == buildings_gdf.rows
           feats == loaded.gdf.features
       IN  /\ to_string(layer.crs) = target_crs => feats = layer.features
           /\ \A k \in 1..Len(rows) :
                 /\ rows[k].label + 1 \in 1..Len(feats)
                 /\ rows[k].geometry = feats[rows[k].label + 1]
                 /\ \A j \in 1..Len(rows) : j < k => rows[j].label < rows[k].label
           /\ \A k \in 1..Len(feats) :
                 (\E j \in 1..Len(rows) : rows[j].label = k - 1) <=> ~Disjoint(feats[k])

\* a layer in the target CRS with a touching and a disjoint footprint has
\* been filtered: the first is kept, the second dropped
C16_Witness ==
    /\ buildings_gdf.status = "returned"
    /\ to_string(layer.crs) = target_crs
    /\ Len(layer.features) = 2
    /\ Touches(layer.features[1]) /\ Disjoint(layer.features[2])
    /\ Len(buildings_gdf.rows) = 1

----------------------------------------------------------------------------
(* Claims about the batch analyses *)

\* the processing of row k of the frame raises
Raises(k) ==
    \/ ProgressRejects(buildings_gdf.rows[k].label, Len(buildings_gdf.rows))
    \/ extract_raster_stats_for_polygon(src, buildings_gdf.rows[k].geometry).status
         # "returned"

\* C19: in a batch analysis (here analyze_buildings) a feature whose
\* processing raises is reported and left out of the results, and every
\* other feature of the batch is still processed and present in the results:
\* the call never ends in the exception, and it returns one result for each
\* row that did not raise.
C19_FailingFeatureIsLeftOut ==
    /\ apc \in {"idle", "loop", "done"}
    /\ apc = "done"
         => \A k \in 1..Len(buildings_gdf.rows) :
               ~Raises(k) <=> \E m \in 1..Len(building_results) :
                                 building_results[m].label = buildings_gdf.rows[k].label

\* the layer holds a geometry that is not a point
NonPoint == \E k \in 1..Len(layer.features) : layer.features[k].type # "Point"

\* C20: on a layer with any non-point geometry the point analysis ends in
\* the ValueError of extract_point_coordinates before a raster is sampled and
\* without a table; on a layer of points alone the coordinates are one pair
\* per feature, in layer order.
C20_NonPointLayerIsRejected ==
    ppc # "idle"
    => /\ NonPoint => /\ ppc = "ValueError"
                      /\ coordinates = <<>>
                      /\ results = NoResults
       /\ ~NonPoint => /\ ppc \in {"sampling", "returned"}
                       /\ Len(coordinates) = Len(layer.features)
                       /\ \A k \in 1..Len(layer.features) :
                             coordinates[k] = layer.features[k].coords[1]
                       /\ Len(results.longitude) = Len(layer.features)

\* the analysis of a layer holding a point and then a line has ended in the
\* error
C20_Witness ==
    /\ ppc = "ValueError"
    /\ Len(layer.features) = 2
    /\ layer.features[1].type = "Point" /\ layer.features[2].type = "LineString"
    /\ Len(raster_paths) = 2

----------------------------------------------------------------------------
(* Claims about check_all_inputs_crs *)

\* whether a provided file declares a CRS whose string is the target
InTarget(f, target) ==
    IF "gdf" \in DOMAIN f
    THEN f.readable /\ ~f.gdf.crs.none /\ to_string(f.gdf.crs) = target
    ELSE ~f.crs.none /\ to_string(f.crs) = target

AllProvided ==
    { raster_files[n] : n \in Provided(raster_files) }
    \cup { vector_files[n] : n \in Provided(vector_files) }

\* C22: when check_all_inputs_crs returns, all_match is true exactly when
\* every provided raster and layer declares a CRS whose string equals the
\* target; a layer without CRS or one that cannot be read makes it false;
\* and the messages hold one entry for each provided file and no other.
C22_AllMatchIffEveryInputInTarget ==
    checked.status = "returned"
    => /\ checked.all_match <=> \A f \in AllProvided : InTarget(f, target_crs)
       /\ \A n \in Provided(vector_files) :
             (~vector_files[n].readable \/ vector_files[n].gdf.crs.none)
                => ~checked.all_match
       /\ DOMAIN checked.messages = Provided(raster_files) \cup Provided(vector_files)

C22_Witness ==
    /\ checked.status = "returned" /\ ~checked.all_match
    /\ Provided(raster_files) = Range(RasterNames)
    /\ \A n \in Range(RasterNames) : InTarget(raster_files[n], target_crs)
    /\ InTarget(vector_files["points"], target_crs)
    /\ vector_files["cross_sections"].present
    /\ vector_files["cross_sections"].readable
    /\ vector_files["cross_sections"].gdf.crs.none

----------------------------------------------------------------------------
(* Claims about repeated downloads *)

\* C23: two calls of download_building_footprints with the same area of
\* interest, the same manifest and the same tile contents give every
\* building, that is every feature of every tile, the same building_id in
\* both calls (which iterating the tile keys in the same order would ensure).
C23_SameInputsSameIdentifiers ==
    (first_call.made /\ pc = "done")
    => /\ Len(combined_gdf) = Len(first_call.combined_gdf)
       /\ \A a \in 1..Len(combined_gdf), b \in 1..Len(first_call.combined_gdf) :
             (combined_gdf[a].tile = first_call.combined_gdf[b].tile
              /\ combined_gdf[a].feature = first_call.combined_gdf[b].feature)
               => combined_gdf[a].building_id = first_call.combined_gdf[b].building_id

\* C24: every fraction analyze_buildings gives to the progress bar lies in
\* [0, 1], whatever the row labels of the layer, the labels with gaps that
\* the intersection filter of the existing-layer mode leaves included.
C24_ProgressFractionsWithinUnit ==
    \A k \in 1..Len(shown) : 0 <= shown[k].num /\ shown[k].num <= shown[k].den

----------------------------------------------------------------------------
(* Claims about format_results_table *)

\* the difference wse - dem of row k of the table given, in thousandths
Difference(k) == df.rows[k].wse.num - df.rows[k].dem.num

Missing(k) == df.rows[k].wse.nan \/ df.rows[k].dem.nan

HasBoth == {"dem", "wse"} \subseteq df.columns

\* C25, as stated: with both columns there, the depth of every row of the
\* returned table is wse - dem when that is above 0 and 0 otherwise, a row
\* with a missing wse or dem included.
C25_DepthIsDifferenceOrZero ==
    (formatted_df.status = "returned" /\ HasBoth)
    => \A k \in 1..Len(df.rows) :
          LET d == formatted_df.rows[k].depth_above_ground
          IN  /\ ~d.nan
              /\ d.num = IF ~Missing(k) /\ Difference(k) > 0 THEN Difference(k) ELSE 0

\* C25, amended: with both columns there, the depth of every row of the
\* returned table is wse - dem rounded to two decimals (a tie to the even
\* hundredth) when that difference is above 0 and 0 otherwise; it is never
\* negative and never missing, and a row with a missing wse or dem has 0.
C25_DepthIsRoundedDifferenceOrZero ==
    (formatted_df.status = "returned" /\ HasBoth)
    => \A k \in 1..Len(df.rows) :
          LET d == formatted_df.rows[k].depth_above_ground
              exact == IF ~Missing(k) /\ Difference(k) > 0 THEN Difference(k) ELSE 0
          IN  /\ ~d.nan /\ d.num >= 0
              /\ d.num % 10 = 0
              /\ d.num - exact \in -5..5
              /\ (d.num - exact \in {-5, 5}) => (d.num \div 10) % 2 = 0
              /\ Missing(k) => d.num = 0

C25_Witness ==
    /\ formatted_df.status = "returned" /\ HasBoth /\ Len(df.rows) = 2
    /\ df.rows[1].wse.nan /\ ~df.rows[1].dem.nan
    /\ formatted_df.rows[1].depth_above_ground = Float(0, Thousandth)
    /\ ~Missing(2) /\ Difference(2) = 15
    /\ formatted_df.rows[2].depth_above_ground = Float(20, Thousandth)

----------------------------------------------------------------------------
(* Claims about the page *)

\* C26: after any sequence of Auto-Reproject, Clean Up and analysis runs,
\* every path that get_file_paths hands to an analysis names a file that is
\* there when it is handed over; no path into a directory that
\* cleanup_temp_files removed comes back from the session state.
C26_HandedPathsExist ==
    \A h \in handed : h.exists

====
